---- MODULE Spec2Model ----
(***************************************************************************)
(* dora-pydantic-arrow: conversion between Pydantic model instances and    *)
(* Arrow record batches / tables.                                          *)
(*                                                                         *)
(* Modelled units                                                          *)
(*   schema.py      schema_from_model and the annotation -> Arrow mapping  *)
(*   conversion.py  to_arrow / from_arrow and their row-level passes       *)
(*   batch.py       BatchBuilder (append / to_record_batch / clear)        *)
(*                                                                         *)
(* Python values are tagged records ([k |-> kind, ...]); a fallible call   *)
(* returns Ok(value) or Err(exception class).                              *)
(***************************************************************************)
EXTENDS Integers, Sequences, FiniteSets, TLC

VARIABLES
    \* schema derivation calls (schema.py)
    s_model,        \* the model type last handed to schema_from_model
    s_config,       \* the config of that call
    s_result,       \* what the call returned or raised
    \* conversion calls (conversion.py)
    pc,             \* "idle" | "encoded" | "decoded" | "read"
    c_obj,          \* the object handed to to_arrow
    c_schema,       \* the schema= argument of that call
    c_config,       \* the config= argument of that call
    c_as_table,     \* the as_table= argument of that call
    c_arrow,        \* what to_arrow returned or raised
    c_data,         \* the data handed to from_arrow
    c_validate,     \* the validate= argument of that call
    c_dconfig,      \* the config= argument of that call
    c_hint,         \* the type_hint= argument handed to from_arrow
    c_restored,     \* what from_arrow returned or raised
    \* BatchBuilder object (batch.py)
    b_rows,         \* self._rows
    b_schema,       \* self._schema
    b_model_type,   \* self._model_type
    b_config,       \* self._config
    b_last          \* the last method call and its outcome

vars == <<s_model, s_config, s_result,
          pc, c_obj, c_schema, c_config, c_as_table, c_arrow,
          c_data, c_validate, c_dconfig, c_hint, c_restored,
          b_rows, b_schema, b_model_type, b_config, b_last>>

svars == <<s_model, s_config, s_result>>
cvars == <<pc, c_obj, c_schema, c_config, c_as_table, c_arrow,
           c_data, c_validate, c_dconfig, c_hint, c_restored>>
bvars == <<b_rows, b_schema, b_model_type, b_config, b_last>>

----------------------------------------------------------------------------
(* Bounds of the model *)

\* nesting depth of the generated field annotations (0: plain types only)
MaxAnnDepth == 1
\* longest row list handed to to_arrow
MaxRows == 2
\* most rows a BatchBuilder buffers
MaxBuf == 2

----------------------------------------------------------------------------
(* Call outcomes *)

Ok(v) == [ok |-> TRUE, val |-> v]
Err(e) == [ok |-> FALSE, err |-> e]

\* the call chain of a function body: body(value) when the call returned
\* value, the exception when it raised
Bind(r, body(_)) == IF r.ok THEN body(r.val) ELSE r

\* body(value) for a value that is used more than once
With(value, body(_)) == body(value)

\* index of the first failed outcome of a sequence of outcomes (0: none)
FirstErr(rs) ==
    IF \E i \in 1..Len(rs) : ~rs[i].ok
    THEN CHOOSE i \in 1..Len(rs) : ~rs[i].ok /\ \A j \in 1..(i-1) : rs[j].ok
    ELSE 0

Vals(rs) == [i \in 1..Len(rs) |-> rs[i].val]

----------------------------------------------------------------------------
(* Python values *)

None == [k |-> "none"]
PyInt(n) == [k |-> "int", n |-> n]
PyBool(b) == [k |-> "bool", b |-> b]
\* a float is held in tenths: PyFloat(999) is 99.9
PyFloat(n) == [k |-> "float", tenths |-> n]
PyStr(s) == [k |-> "str", s |-> s]
PyBytes(bs) == [k |-> "bytes", raw |-> bs]
PyList(xs) == [k |-> "list", v |-> xs]
PyTuple(xs) == [k |-> "tuple", v |-> xs]
\* a dict is its items in insertion order
Item(key, val) == [key |-> key, val |-> val]
PyDict(items) == [k |-> "dict", v |-> items]
\* a datetime: wall-clock minutes, and the UTC offset (minutes) when aware
PyDatetime(wall, aware, off) == [k |-> "datetime", wall |-> wall, aware |-> aware, off |-> off]
\* a UUID is its 128-bit integer, held as eight 16-bit limbs, most significant first
PyUUID(limbs) == [k |-> "uuid", int |-> limbs]
\* an Enum member
PyEnum(cls, name) == [k |-> "enum", cls |-> cls, name |-> name]
\* a BaseModel instance: its class and its field values (__dict__)
PyModel(cls, items) == [k |-> "model", cls |-> cls, v |-> items]

IsNone(x) == x = None

Keys(d) == [i \in 1..Len(d.v) |-> d.v[i].key]
HasKey(d, key) == \E i \in 1..Len(d.v) : d.v[i].key = key
\* d[key]; dict.get(key) when the key may be absent
DictGet(d, key) ==
    IF HasKey(d, key)
    THEN d.v[CHOOSE i \in 1..Len(d.v) : d.v[i].key = key].val
    ELSE None

----------------------------------------------------------------------------
(* Type annotations, model classes and enum classes                        *)
(*   a plain type          [o |-> "int"]                                   *)
(*   a BaseModel subclass  [o |-> "model", cls |-> <class>]                *)
(*   an Enum subclass      [o |-> "enum", cls |-> <class>]                 *)
(*   a generic alias       [o |-> <origin>, args |-> <<...>>]              *)

Plain(name) == [o |-> name]
ModelAnn(cls) == [o |-> "model", cls |-> cls]
EnumAnn(cls) == [o |-> "enum", cls |-> cls]
Generic(origin, args) == [o |-> origin, args |-> args]

NoneType == Plain("NoneType")
IsNoneType(annotation) == annotation.o = "NoneType"
Optional(a) == Generic("Union", <<a, NoneType>>)
ListOf(a) == Generic("list", <<a>>)
DictOf(key, val) == Generic("dict", <<key, val>>)

\* typing.get_origin / typing.get_args
get_origin(annotation) == IF "args" \in DOMAIN annotation THEN annotation.o ELSE "None"
get_args(annotation) == IF "args" \in DOMAIN annotation THEN annotation.args ELSE <<>>

\* whether an annotation is Optional[X]: a union with None among its members
IsOptionalAnn(annotation) ==
    /\ get_origin(annotation) = "Union"
    /\ \E i \in 1..Len(annotation.args) : IsNoneType(annotation.args[i])

\* the X of Optional[X]
OptionalInner(annotation) ==
    annotation.args[CHOOSE i \in 1..Len(annotation.args) : ~IsNoneType(annotation.args[i])]

\* a model field as pydantic's model_fields gives it
ModelField(name, annotation, required) ==
    [name |-> name, annotation |-> annotation, required |-> required]
\* a BaseModel subclass: its qualified name and its fields in declaration order
ModelClass(name, fields) == [module |-> "models", name |-> name, fields |-> fields]
\* an Enum subclass: its members in definition order
Member(name, value) == [name |-> name, value |-> value]
EnumClass(name, members) == [name |-> name, members |-> members]

----------------------------------------------------------------------------
(* config.py *)

DefaultPrecision == 38
DefaultScale == 9

DAConfigOf(policy, precision, scale, skip) ==
    [k |-> "DAConfig", datetime_policy |-> policy, decimal_precision |-> precision,
     decimal_scale |-> scale, fast_path_skip_validation |-> skip]

DAConfig == DAConfigOf("normalize_utc", DefaultPrecision, DefaultScale, FALSE)

\* `config or DAConfig()`
OrDefault(config) == IF IsNone(config) THEN DAConfig ELSE config

----------------------------------------------------------------------------
(* pyarrow data types, fields and schemas *)

ArrowType(name) == [t |-> name]
pa_int64 == ArrowType("int64")
pa_bool == ArrowType("bool")
pa_float64 == ArrowType("float64")
pa_string == ArrowType("string")
pa_binary == ArrowType("binary")
pa_large_binary == ArrowType("large_binary")
pa_date32 == ArrowType("date32")
pa_time64(unit) == [t |-> "time64", unit |-> unit]
pa_timestamp(unit, tz) == [t |-> "timestamp", unit |-> unit, tz |-> tz]
pa_decimal128(precision, scale) == [t |-> "decimal128", precision |-> precision, scale |-> scale]
pa_fixed_binary(n) == [t |-> "fixed_size_binary", width |-> n]
pa_list(item) == [t |-> "list", item |-> item]
pa_map(key, item) == [t |-> "map", key |-> key, item |-> item]
pa_struct(fields) == [t |-> "struct", fields |-> fields]

\* pa.field(name, type, nullable=, metadata=); metadata is a set of <<key, value>>
pa_field(name, type, nullable, metadata) ==
    [name |-> name, type |-> type, nullable |-> nullable, metadata |-> metadata]

\* schema-level metadata: a function from key to value; <<>> when there is none
NoMetadata == <<>>
pa_schema(fields) == [fields |-> fields, metadata |-> NoMetadata]

is_string(type) == type.t = "string"

----------------------------------------------------------------------------
(* schema.py *)

SERIALIZED_FIELD_METADATA_KEY == "dpa.serialized"
SERIALIZED_FIELD_KIND_DICT_ANY == "dict_any"

RECURSIVE schema_from_model(_, _), _annotation_to_arrow(_, _),
          _handle_union(_, _), _simple_type_to_arrow(_, _)

\* the (type, nullable) pair _annotation_to_arrow returns
TypeAndNullable(type, nullable) == [type |-> type, nullable |-> nullable]

_strip_optional(annotation) ==
    IF get_origin(annotation) = "Union"
    THEN LET args == SelectSeq(get_args(annotation), LAMBDA arg : ~IsNoneType(arg))
         IN IF Len(args) = 1 THEN args[1] ELSE annotation
    ELSE annotation

_is_dict_with_any_values(annotation) ==
    IF get_origin(annotation) # "dict" THEN FALSE
    ELSE LET args == get_args(annotation)
         IN IF Len(args) # 2 THEN FALSE
            ELSE args[1].o = "str" /\ args[2].o = "Any"

_field_metadata_for_annotation(annotation) ==
    LET base_annotation == _strip_optional(annotation)
    IN IF _is_dict_with_any_values(base_annotation)
       THEN {<<SERIALIZED_FIELD_METADATA_KEY, SERIALIZED_FIELD_KIND_DICT_ANY>>}
       ELSE {}

\* the class name of a value's type, as an annotation names it
TypeName(value) == IF value.k = "uuid" THEN "UUID" ELSE value.k

\* mutant of EnumValueType: the first member's value type stands for all
EnumValueTypeOfFirst(cls) ==
    IF Len(cls.members) = 0 THEN Err("UnsupportedTypeError")
    ELSE Ok(Plain(TypeName(cls.members[1].value)))

\* the single value type of an Enum class's members: {type(member.value) ...},
\* rejected when empty or mixed
EnumValueType(cls) ==
    LET value_types == {TypeName(cls.members[i].value) : i \in 1..Len(cls.members)}
    IN IF value_types = {} THEN Err("UnsupportedTypeError")
       ELSE IF Cardinality(value_types) # 1 THEN Err("UnsupportedTypeError")
       ELSE Ok(Plain(CHOOSE t \in value_types : TRUE))

\* mutant of ContainsNone: the None member of a union is not noticed
ContainsNoneIgnored(args, non_none) == FALSE

\* whether a union's members include None: len(non_none) != len(args)
ContainsNone(args, non_none) == Len(non_none) # Len(args)

_simple_type_to_arrow(annotation, config) ==
    IF annotation.o = "model"
    THEN LET nested_schema == schema_from_model(annotation.cls, config)
         IN IF nested_schema.ok THEN Ok(pa_struct(nested_schema.val.fields))
            ELSE nested_schema
    ELSE IF annotation.o = "enum"
    THEN LET value_type == EnumValueType(annotation.cls)
         IN IF ~value_type.ok THEN value_type
            ELSE _simple_type_to_arrow(value_type.val, config)
    ELSE IF annotation.o = "int" THEN Ok(pa_int64)
    ELSE IF annotation.o = "bool" THEN Ok(pa_bool)
    ELSE IF annotation.o = "float" THEN Ok(pa_float64)
    ELSE IF annotation.o = "str" THEN Ok(pa_string)
    ELSE IF annotation.o = "bytes" THEN Ok(pa_binary)
    ELSE IF annotation.o = "datetime" THEN Ok(pa_timestamp("us", "UTC"))
    ELSE IF annotation.o = "date" THEN Ok(pa_date32)
    ELSE IF annotation.o = "time" THEN Ok(pa_time64("us"))
    ELSE IF annotation.o = "Decimal"
    THEN LET cfg == OrDefault(config)
         IN Ok(pa_decimal128(cfg.decimal_precision, cfg.decimal_scale))
    ELSE IF annotation.o = "UUID" THEN Ok(pa_fixed_binary(16))
    ELSE Err("UnsupportedTypeError")

_handle_union(args, config) ==
    LET non_none == SelectSeq(args, LAMBDA arg : ~IsNoneType(arg))
        contains_none == ContainsNone(args, non_none)
    IN IF Len(non_none) # 1 THEN Err("UnsupportedTypeError")
       ELSE LET child == _annotation_to_arrow(non_none[1], config)
            IN IF ~child.ok THEN child
               ELSE Ok(TypeAndNullable(child.val.type, contains_none))

_annotation_to_arrow(annotation, config) ==
    LET origin == get_origin(annotation)
        args == get_args(annotation)
    IN IF origin = "None"
       THEN LET simple == _simple_type_to_arrow(annotation, config)
            IN IF simple.ok THEN Ok(TypeAndNullable(simple.val, FALSE)) ELSE simple
       ELSE IF origin \in {"list", "tuple", "set"}
       THEN IF Len(args) = 0 THEN Err("UnsupportedTypeError")
            ELSE IF origin = "tuple"
            THEN LET children == [i \in 1..Len(args) |-> _annotation_to_arrow(args[i], config)]
                     bad == FirstErr(children)
                 IN IF bad # 0 THEN children[bad]
                    ELSE Ok(TypeAndNullable(
                            pa_struct([i \in 1..Len(args) |->
                                pa_field("f" \o ToString(i - 1), children[i].val.type,
                                         children[i].val.nullable, {})]),
                            FALSE))
            ELSE LET item == _annotation_to_arrow(args[1], config)
                 IN IF ~item.ok THEN item
                    ELSE Ok(TypeAndNullable(pa_list(item.val.type), FALSE))
       ELSE IF origin = "dict"
       THEN IF Len(args) # 2 THEN Err("ValueError")  \* the tuple unpacking fails
            ELSE LET key == _annotation_to_arrow(args[1], config)
                 IN IF ~key.ok THEN key
                    ELSE IF key.val.nullable THEN Err("UnsupportedTypeError")
                    ELSE IF ~is_string(key.val.type) THEN Err("UnsupportedTypeError")
                    ELSE IF args[2].o = "Any"
                    THEN Ok(TypeAndNullable(pa_large_binary, FALSE))
                    ELSE LET value == _annotation_to_arrow(args[2], config)
                         IN IF ~value.ok THEN value
                            ELSE Ok(TypeAndNullable(pa_map(key.val.type, value.val.type), FALSE))
       ELSE IF origin = "Union" THEN _handle_union(args, config)
       ELSE Err("UnsupportedTypeError")

schema_from_model(model_type, config) ==
    LET n == Len(model_type.fields)
        mapped == [i \in 1..n |-> _annotation_to_arrow(model_type.fields[i].annotation, config)]
        bad == FirstErr(mapped)
    IN IF bad # 0 THEN mapped[bad]
       ELSE Ok(pa_schema([i \in 1..n |->
                pa_field(model_type.fields[i].name, mapped[i].val.type, mapped[i].val.nullable,
                         _field_metadata_for_annotation(model_type.fields[i].annotation))]))

----------------------------------------------------------------------------
(* The model and enum classes the calls are made with (tests/) *)

IntKind == EnumClass("IntKind", <<Member("FIRST", PyInt(1)), Member("SECOND", PyInt(2))>>)
StrKind == EnumClass("StrKind",
    <<Member("EXAMPLE", PyStr("example")), Member("ANOTHER", PyStr("another"))>>)
\* an enum whose members mix int and string values
MixedKind == EnumClass("MixedKind", <<Member("A", PyInt(1)), Member("B", PyStr("b"))>>)

SimpleModel == ModelClass("SimpleModel",
    <<ModelField("id", Plain("int"), TRUE),
      ModelField("name", Plain("str"), TRUE),
      ModelField("value", Optional(Plain("float")), FALSE)>>)

UuidModel == ModelClass("UuidModel",
    <<ModelField("id", Plain("UUID"), FALSE),
      ModelField("name", Plain("str"), TRUE)>>)

EnumModel == ModelClass("EnumModel",
    <<ModelField("int_kind", EnumAnn(IntKind), TRUE),
      ModelField("str_kind", EnumAnn(StrKind), TRUE),
      ModelField("opt_int_kind", Optional(EnumAnn(IntKind)), FALSE)>>)

EventModel == ModelClass("EventModel",
    <<ModelField("at", Plain("datetime"), TRUE),
      ModelField("note", Optional(Plain("str")), FALSE)>>)

\* a model with a nested record
OuterModel == ModelClass("OuterModel",
    <<ModelField("inner", ModelAnn(UuidModel), TRUE),
      ModelField("tag", Optional(Plain("str")), FALSE)>>)

\* a model with an opaque dict field
PayloadModel == ModelClass("PayloadModel",
    <<ModelField("name", Plain("str"), TRUE),
      ModelField("payload", Optional(DictOf(Plain("str"), Plain("Any"))), FALSE)>>)

\* cls(**values): an instance holding the values in field order
New(cls, values) ==
    PyModel(cls, [i \in 1..Len(cls.fields) |-> Item(cls.fields[i].name, values[i])])

\* a version 7 and a version 4 UUID (RFC 4122 variant)
UuidV7 == PyUUID(<<1, 2, 3, 28676, 32773, 6, 7, 8>>)
UuidV4 == PyUUID(<<9, 10, 11, 16396, 32781, 14, 15, 16>>)

SimpleInstances ==
    {New(SimpleModel, <<PyInt(1), PyStr("Alice"), PyFloat(999)>>),
     New(SimpleModel, <<PyInt(2), PyStr("Bob"), None>>),
     New(SimpleModel, <<PyInt(3), PyStr("Charlie"), PyFloat(-10)>>)}

UuidInstances ==
    {New(UuidModel, <<UuidV7, PyStr("one")>>),
     New(UuidModel, <<UuidV4, PyStr("two")>>)}

EnumInstances ==
    {New(EnumModel, <<PyEnum(IntKind, "FIRST"), PyEnum(StrKind, "EXAMPLE"), None>>),
     New(EnumModel, <<PyEnum(IntKind, "SECOND"), PyEnum(StrKind, "ANOTHER"),
                      PyEnum(IntKind, "FIRST")>>)}

\* 12:00 naive, 12:00 UTC, and 12:00 at UTC+09:00
EventInstances ==
    {New(EventModel, <<PyDatetime(720, FALSE, 0), None>>),
     New(EventModel, <<PyDatetime(720, TRUE, 0), PyStr("utc")>>),
     New(EventModel, <<PyDatetime(720, TRUE, 540), PyStr("jst")>>)}

OuterInstances ==
    {New(OuterModel, <<New(UuidModel, <<UuidV7, PyStr("one")>>), None>>),
     New(OuterModel, <<New(UuidModel, <<UuidV4, PyStr("two")>>), PyStr("t")>>)}

PayloadInstances ==
    {New(PayloadModel, <<PyStr("p0"), None>>),
     New(PayloadModel, <<PyStr("p1"),
        PyDict(<<Item("string", PyStr("value")), Item("number", PyInt(42)),
                 Item("list", PyList(<<PyInt(1), PyInt(2)>>)),
                 Item("nested", PyDict(<<Item("a", PyInt(1))>>))>>)>>),
     New(PayloadModel, <<PyStr("p2"), PyDict(<<Item("k", UuidV4)>>)>>),
     New(PayloadModel, <<PyStr("p4"), PyDict(<<Item("k", UuidV7), Item("j", UuidV4)>>)>>),
     New(PayloadModel, <<PyStr("p3"),
        PyDict(<<Item("k", PyList(<<UuidV4, PyDict(<<Item("x", UuidV7)>>)>>))>>)>>)}

\* the instance sets, one per model class
InstanceSets ==
    {SimpleInstances, UuidInstances, EnumInstances, EventInstances, OuterInstances,
     PayloadInstances}

\* the sequences over S of length 1..n
RECURSIVE SeqsUpTo(_, _)
SeqsUpTo(S, n) ==
    IF n = 0 THEN {}
    ELSE LET shorter == SeqsUpTo(S, n - 1)
         IN {<<x>> : x \in S} \cup shorter \cup {Append(s, x) : s \in shorter, x \in S}

\* lists of instances of one model class
ModelLists == UNION {{PyList(s) : s \in SeqsUpTo(S, MaxRows)} : S \in InstanceSets}

----------------------------------------------------------------------------
(* Schema derivation calls: the annotations a generated model's field takes *)

PlainNames == {"int", "bool", "float", "str", "bytes", "datetime", "date", "time",
               "Decimal", "UUID", "Any", "list"}

\* annotations schema.py has no Arrow type for: a union of several types, a
\* dict keyed by int, typing.Tuple and typing.Set without arguments, and models
\* with such a field
RefusedAnnotations ==
    {Generic("Union", <<Plain("int"), Plain("str")>>),
     DictOf(Plain("int"), Plain("str")),
     Generic("tuple", <<>>), Generic("set", <<>>),
     ModelAnn(ModelClass("Inner", <<ModelField("x", Generic("dict", <<>>), TRUE)>>)),
     ModelAnn(ModelClass("Inner", <<ModelField("x",
            Generic("Union", <<Plain("int"), Plain("str"), NoneType>>), FALSE)>>))}

LeafAnnotations ==
    {Plain(n) : n \in PlainNames}
    \cup {EnumAnn(IntKind), EnumAnn(StrKind), EnumAnn(MixedKind)}
    \cup {ModelAnn(SimpleModel)}
    \cup {Generic("list", <<>>), Generic("dict", <<>>)}
    \cup RefusedAnnotations

\* dict fields as the models of the tests declare them: values of any type, of
\* a union of types, of one type; required and Optional
DictAnnotations ==
    LET values == {Plain("Any"), Plain("int"),
                   Generic("Union", <<Plain("str"), Plain("int"), Plain("float")>>),
                   Generic("Union", <<Plain("str"), Plain("int"), NoneType>>)}
    IN {DictOf(Plain("str"), v) : v \in values}
       \cup {Optional(DictOf(Plain("str"), v)) : v \in values}

\* the annotations built from those of S by one more type constructor
Wrapped(S) ==
    {Optional(a) : a \in {x \in S : get_origin(x) # "Union"}}
    \cup {ListOf(a) : a \in S}
    \cup {DictOf(Plain("str"), a) : a \in S}
    \cup {DictOf(Plain("int"), a) : a \in S}
    \cup {Generic("tuple", <<a, Plain("str")>>) : a \in S}
    \cup {Generic("Union", <<Plain("int"), Plain("str")>>),
          Generic("Union", <<Plain("int"), Plain("str"), NoneType>>)}
    \cup DictAnnotations

RECURSIVE AnnotationsOfDepth(_)
AnnotationsOfDepth(d) ==
    IF d = 0 THEN LeafAnnotations
    ELSE AnnotationsOfDepth(d - 1) \cup Wrapped(AnnotationsOfDepth(d - 1))

Annotations == AnnotationsOfDepth(MaxAnnDepth)

\* a model class with a required int field followed by one field under test
GeneratedModel(annotation, required) ==
    ModelClass("Generated",
        <<ModelField("head", Plain("int"), TRUE),
          ModelField("f", annotation, required)>>)

SchemaConfigs == {None, DAConfigOf("normalize_utc", 10, 2, FALSE)}

NotCalled == [k |-> "none"]
Called(result) == "ok" \in DOMAIN result

SchemaIdle ==
    /\ s_model = NotCalled
    /\ s_config = None
    /\ s_result = NotCalled

\* dpa.schema_from_model(model_type, config=config)
DeriveSchema ==
    \E annotation \in Annotations, required \in BOOLEAN, config \in SchemaConfigs :
        /\ ~Called(s_result)
        /\ s_model' = GeneratedModel(annotation, required)
        /\ s_config' = config
        /\ s_result' = schema_from_model(s_model', config)
        /\ UNCHANGED <<cvars, bvars>>

----------------------------------------------------------------------------
(* Standard-library values: uuid, enum, datetime, pickle, json *)

\* UUID.bytes: the 128-bit integer as 16 bytes, big-endian
uuid_bytes(u) ==
    [i \in 1..16 |-> IF i % 2 = 1 THEN u.int[(i + 1) \div 2] \div 256
                     ELSE u.int[i \div 2] % 256]

\* UUID(bytes=b): the integer of 16 big-endian bytes
uuid_from_bytes(b) == PyUUID([j \in 1..8 |-> b.raw[2 * j - 1] * 256 + b.raw[2 * j]])

\* UUID.version: bits 76..79 of the integer when the variant is RFC 4122, else None
uuid_version(u) ==
    IF u.int[5] \div 16384 = 2 THEN PyInt(u.int[4] \div 4096) ELSE None

\* Enum member .value
EnumValue(member) ==
    member.cls.members[CHOOSE i \in 1..Len(member.cls.members) :
                           member.cls.members[i].name = member.name].value

\* datetime.replace(tzinfo=timezone.utc)
ReplaceTzUtc(d) == PyDatetime(d.wall, TRUE, 0)
\* datetime.astimezone(timezone.utc) of an aware datetime
AsTimezoneUtc(d) == PyDatetime(d.wall - d.off, TRUE, 0)
\* datetime.replace(tzinfo=None)
ReplaceTzNone(d) == PyDatetime(d.wall, FALSE, 0)

\* pickle.dumps / pickle.loads: the bytes carry the pickled object
PickleDumps(value) == [k |-> "bytes", pickled |-> value]
IsPickle(value) == value.k = "bytes" /\ "pickled" \in DOMAIN value
PickleLoads(b) == IF IsPickle(b) THEN Ok(b.pickled) ELSE Err("UnpicklingError")

\* json.dumps(...).encode() / json.loads(....decode()): the text carries the document
JsonDumps(value) == [k |-> "bytes", json |-> value]
JsonLoads(b) == b.json

\* dict[key] = val
DictSet(d, key, val) ==
    IF HasKey(d, key)
    THEN PyDict([i \in 1..Len(d.v) |-> IF d.v[i].key = key THEN Item(key, val) ELSE d.v[i]])
    ELSE PyDict(Append(d.v, Item(key, val)))

\* Python's == on the values of the model
RECURSIVE PyEq(_, _)
PyEq(a, b) ==
    IF a.k # b.k THEN FALSE
    ELSE IF a.k = "datetime"
    THEN IF a.aware # b.aware THEN FALSE
         ELSE IF a.aware THEN a.wall - a.off = b.wall - b.off
         ELSE a.wall = b.wall
    ELSE IF a.k \in {"list", "tuple"}
    THEN /\ Len(a.v) = Len(b.v)
         /\ \A i \in 1..Len(a.v) : PyEq(a.v[i], b.v[i])
    ELSE IF a.k = "dict"
    THEN /\ Len(a.v) = Len(b.v)
         /\ \A i \in 1..Len(a.v) :
                HasKey(b, a.v[i].key) /\ PyEq(a.v[i].val, DictGet(b, a.v[i].key))
    ELSE IF a.k = "model"
    THEN /\ a.cls = b.cls
         /\ PyEq(PyDict(a.v), PyDict(b.v))
    ELSE IF a.k = "bytes"
    THEN IF IsPickle(a) # IsPickle(b) THEN FALSE
         ELSE IF IsPickle(a) THEN PyEq(a.pickled, b.pickled)
         ELSE a = b
    ELSE a = b

----------------------------------------------------------------------------
(* pydantic.BaseModel: model_dump, model_validate, model_construct *)

RECURSIVE DumpValue(_)
DumpValue(value) ==
    IF value.k = "model"
    THEN PyDict([i \in 1..Len(value.v) |-> Item(value.v[i].key, DumpValue(value.v[i].val))])
    ELSE IF value.k = "dict"
    THEN PyDict([i \in 1..Len(value.v) |-> Item(value.v[i].key, DumpValue(value.v[i].val))])
    ELSE IF value.k = "list" THEN PyList([i \in 1..Len(value.v) |-> DumpValue(value.v[i])])
    ELSE IF value.k = "tuple" THEN PyTuple([i \in 1..Len(value.v) |-> DumpValue(value.v[i])])
    ELSE value

\* instance.model_dump(mode="python")
model_dump(instance) == DumpValue(instance)

RECURSIVE model_validate(_, _), ValidateValue(_, _)

\* the value a field annotation accepts, or ValidationError
ValidateValue(annotation, value) ==
    IF annotation.o = "Union"
    THEN IF IsNone(value)
         THEN IF IsOptionalAnn(annotation) THEN Ok(None) ELSE Err("ValidationError")
         ELSE LET tries == [i \in 1..Len(annotation.args) |->
                                IF IsNoneType(annotation.args[i]) THEN Err("ValidationError")
                                ELSE ValidateValue(annotation.args[i], value)]
              IN IF \E i \in 1..Len(tries) : tries[i].ok
                 THEN tries[CHOOSE i \in 1..Len(tries) :
                                tries[i].ok /\ \A j \in 1..(i-1) : ~tries[j].ok]
                 ELSE Err("ValidationError")
    ELSE IF annotation.o = "Any" THEN Ok(value)
    ELSE IF annotation.o = "model"
    THEN IF value.k = "dict" THEN model_validate(annotation.cls, value)
         ELSE IF value.k = "model" /\ value.cls = annotation.cls THEN Ok(value)
         ELSE Err("ValidationError")
    ELSE IF annotation.o = "enum"
    THEN IF value.k = "enum"
         THEN IF value.cls = annotation.cls THEN Ok(value) ELSE Err("ValidationError")
         ELSE LET members == annotation.cls.members
                  hits == {i \in 1..Len(members) : members[i].value = value}
              IN IF hits = {} THEN Err("ValidationError")
                 ELSE Ok(PyEnum(annotation.cls, members[CHOOSE i \in hits : TRUE].name))
    ELSE IF annotation.o = "list"
    THEN IF value.k # "list" \/ Len(annotation.args) # 1 THEN Err("ValidationError")
         ELSE LET items == [i \in 1..Len(value.v) |->
                                ValidateValue(annotation.args[1], value.v[i])]
              IN IF FirstErr(items) # 0 THEN Err("ValidationError")
                 ELSE Ok(PyList(Vals(items)))
    ELSE IF annotation.o = "dict"
    THEN IF value.k # "dict" \/ Len(annotation.args) # 2 THEN Err("ValidationError")
         ELSE LET items == [i \in 1..Len(value.v) |->
                                ValidateValue(annotation.args[2], value.v[i].val)]
              IN IF FirstErr(items) # 0 THEN Err("ValidationError")
                 ELSE Ok(PyDict([i \in 1..Len(value.v) |->
                                    Item(value.v[i].key, items[i].val)]))
    ELSE IF annotation.o = "UUID"
    \* 16 bytes are taken as the UUID they spell
    THEN IF value.k = "uuid" THEN Ok(value)
         ELSE IF value.k = "bytes" /\ "raw" \in DOMAIN value /\ Len(value.raw) = 16
         THEN Ok(uuid_from_bytes(value))
         ELSE Err("ValidationError")
    ELSE IF annotation.o \in {"int", "bool", "float", "str", "bytes", "datetime"}
    THEN IF value.k = annotation.o THEN Ok(value) ELSE Err("ValidationError")
    ELSE Err("ValidationError")

\* cls.model_validate(row): every field validated; a field the row lacks takes
\* its default (None) unless it is required; keys that name no field are ignored
model_validate(cls, row) ==
    IF row.k # "dict" THEN Err("ValidationError")
    ELSE LET n == Len(cls.fields)
             checked == [i \in 1..n |->
                 IF HasKey(row, cls.fields[i].name)
                 THEN ValidateValue(cls.fields[i].annotation, DictGet(row, cls.fields[i].name))
                 ELSE IF cls.fields[i].required THEN Err("ValidationError")
                 ELSE Ok(None)]
         IN IF FirstErr(checked) # 0 THEN Err("ValidationError")
            ELSE Ok(PyModel(cls, [i \in 1..n |-> Item(cls.fields[i].name, checked[i].val)]))

\* cls.model_construct(**row): the row's values set as they are, unvalidated
model_construct(cls, row) ==
    LET n == Len(cls.fields)
    IN Ok(PyModel(cls, [i \in 1..n |->
            Item(cls.fields[i].name, DictGet(row, cls.fields[i].name))]))

----------------------------------------------------------------------------
(* pyarrow tables and record batches.  A table or batch is its schema and   *)
(* its rows as to_pylist gives them back: one dict per row, one key per     *)
(* schema field, in schema order.                                           *)

pa_null == ArrowType("null")
\* the timestamp type inferred for datetimes of a fixed non-UTC offset
pa_timestamp_fixed(unit, off) == [t |-> "timestamp", unit |-> unit, tz |-> "fixed", off |-> off]

RECURSIVE ArrowConvert(_, _)
\* the value a column of the given type holds for a Python value (as read back),
\* or ArrowInvalid when the value does not fit the type
ArrowConvert(value, type) ==
    IF IsNone(value) THEN Ok(None)
    ELSE IF type.t = "null" THEN Err("ArrowInvalid")
    ELSE IF type.t = "int64"
    THEN IF value.k = "int" THEN Ok(value) ELSE Err("ArrowInvalid")
    ELSE IF type.t = "float64"
    THEN IF value.k = "float" THEN Ok(value)
         ELSE IF value.k = "int" THEN Ok(PyFloat(value.n * 10))
         ELSE Err("ArrowInvalid")
    ELSE IF type.t = "bool"
    THEN IF value.k = "bool" THEN Ok(value) ELSE Err("ArrowInvalid")
    ELSE IF type.t = "string"
    THEN IF value.k = "str" THEN Ok(value) ELSE Err("ArrowInvalid")
    ELSE IF type.t \in {"binary", "large_binary"}
    THEN IF value.k = "bytes" THEN Ok(value) ELSE Err("ArrowInvalid")
    ELSE IF type.t = "fixed_size_binary"
    THEN IF value.k = "bytes" /\ "raw" \in DOMAIN value /\ Len(value.raw) = type.width
         THEN Ok(value) ELSE Err("ArrowInvalid")
    ELSE IF type.t = "timestamp"
    THEN IF value.k # "datetime" THEN Err("ArrowInvalid")
         ELSE IF type.tz = "UTC"
         \* a naive datetime is taken as UTC; values read back carry tzinfo UTC
         THEN Ok(IF value.aware THEN AsTimezoneUtc(value) ELSE ReplaceTzUtc(value))
         ELSE IF type.tz = "fixed"
         THEN Ok(IF value.aware
                 THEN PyDatetime(value.wall - value.off + type.off, TRUE, type.off)
                 ELSE PyDatetime(value.wall + type.off, TRUE, type.off))
         ELSE Ok(IF value.aware THEN ReplaceTzNone(AsTimezoneUtc(value)) ELSE value)
    ELSE IF type.t = "list"
    THEN IF value.k \notin {"list", "tuple"} THEN Err("ArrowInvalid")
         ELSE LET items == [i \in 1..Len(value.v) |-> ArrowConvert(value.v[i], type.item)]
              IN IF FirstErr(items) # 0 THEN Err("ArrowInvalid")
                 ELSE Ok(PyList(Vals(items)))
    ELSE IF type.t = "struct"
    THEN IF value.k # "dict" THEN Err("ArrowInvalid")
         ELSE LET n == Len(type.fields)
                  items == [i \in 1..n |->
                               ArrowConvert(DictGet(value, type.fields[i].name),
                                            type.fields[i].type)]
              IN IF FirstErr(items) # 0 THEN Err("ArrowInvalid")
                 ELSE Ok(PyDict([i \in 1..n |-> Item(type.fields[i].name, items[i].val)]))
    ELSE IF type.t = "map"
    THEN IF value.k # "dict" THEN Err("ArrowInvalid")
         ELSE LET items == [i \in 1..Len(value.v) |-> ArrowConvert(value.v[i].val, type.item)]
              IN IF FirstErr(items) # 0 THEN Err("ArrowInvalid")
                 \* a map value reads back as a list of (key, value) tuples
                 ELSE Ok(PyList([i \in 1..Len(value.v) |->
                            PyTuple(<<PyStr(value.v[i].key), items[i].val>>)]))
    ELSE Err("ArrowInvalid")

RECURSIVE InferType(_)
\* the type pyarrow infers for a column from its Python values
InferType(values) ==
    LET present == SelectSeq(values, LAMBDA v : ~IsNone(v))
        kinds == {present[i].k : i \in 1..Len(present)}
    IN IF kinds = {} THEN Ok(pa_null)
       ELSE IF kinds = {"int"} THEN Ok(pa_int64)
       ELSE IF kinds \subseteq {"int", "float"} THEN Ok(pa_float64)
       ELSE IF kinds = {"bool"} THEN Ok(pa_bool)
       ELSE IF kinds = {"str"} THEN Ok(pa_string)
       ELSE IF kinds = {"bytes"} THEN Ok(pa_binary)
       ELSE IF kinds = {"datetime"}
       THEN IF ~present[1].aware THEN Ok(pa_timestamp("us", "None"))
            ELSE IF present[1].off = 0 THEN Ok(pa_timestamp("us", "UTC"))
            ELSE Ok(pa_timestamp_fixed("us", present[1].off))
       ELSE IF kinds \subseteq {"list", "tuple"}
       THEN LET all == [i \in 1..Len(present) |-> present[i].v]
                RECURSIVE Flat(_)
                Flat(n) == IF n = 0 THEN <<>> ELSE Flat(n - 1) \o all[n]
                item == InferType(Flat(Len(all)))
            IN IF item.ok THEN Ok(pa_list(item.val)) ELSE item
       ELSE IF kinds = {"dict"}
       THEN LET RECURSIVE Names(_)
                \* the keys of all the dicts, in order of first appearance
                Names(n) ==
                    IF n = 0 THEN <<>>
                    ELSE LET before == Names(n - 1)
                             mine == Keys(present[n])
                         IN before \o SelectSeq(mine,
                                LAMBDA key : \A j \in 1..Len(before) : before[j] # key)
                names == Names(Len(present))
                children == [j \in 1..Len(names) |->
                    InferType([i \in 1..Len(present) |-> DictGet(present[i], names[j])])]
            IN IF FirstErr(children) # 0 THEN Err("ArrowInvalid")
               ELSE Ok(pa_struct([j \in 1..Len(names) |->
                        pa_field(names[j], children[j].val, TRUE, {})]))
       ELSE Err("ArrowInvalid")

\* the schema pa.Table.from_pylist infers: the first row's keys name the columns
InferSchema(rows) ==
    LET names == Keys(rows[1])
        types == [j \in 1..Len(names) |->
                     InferType([i \in 1..Len(rows) |-> DictGet(rows[i], names[j])])]
    IN IF FirstErr(types) # 0 THEN Err("ArrowInvalid")
       ELSE Ok(pa_schema([j \in 1..Len(names) |-> pa_field(names[j], types[j].val, TRUE, {})]))

pa_Table(schema, rows) == [k |-> "Table", schema |-> schema, rows |-> rows]
pa_RecordBatch(schema, rows) == [k |-> "RecordBatch", schema |-> schema, rows |-> rows]

\* pa.Table.from_pylist(rows, schema=schema)
Table_from_pylist(rows, schema) ==
    IF IsNone(schema) /\ Len(rows) = 0 THEN Err("ValueError")
    ELSE LET target == IF IsNone(schema) THEN InferSchema(rows) ELSE Ok(schema)
         IN IF ~target.ok THEN target
            ELSE LET fields == target.val.fields
                     cells == [i \in 1..Len(rows) |-> [j \in 1..Len(fields) |->
                                 ArrowConvert(DictGet(rows[i], fields[j].name), fields[j].type)]]
                 IN IF \E i \in 1..Len(rows) : FirstErr(cells[i]) # 0
                    THEN Err("ArrowInvalid")
                    ELSE Ok(pa_Table(target.val,
                            [i \in 1..Len(rows) |->
                                PyDict([j \in 1..Len(fields) |->
                                    Item(fields[j].name, cells[i][j].val)])]))

\* table.replace_schema_metadata(metadata)
replace_schema_metadata(table, metadata) ==
    [table EXCEPT !.schema = [fields |-> table.schema.fields, metadata |-> metadata]]

\* table.combine_chunks().to_batches(max_chunksize=num_rows or 1)
to_batches(table) ==
    IF Len(table.rows) = 0 THEN <<>> ELSE <<pa_RecordBatch(table.schema, table.rows)>>

\* pa.RecordBatch.from_arrays([pa.array([], type=field.type) ...], schema=schema)
RecordBatch_from_empty_arrays(schema) == pa_RecordBatch(schema, <<>>)

\* pa.Table.from_batches([batch])
Table_from_batches(batch) == pa_Table(batch.schema, batch.rows)

\* table.to_pylist()
to_pylist(table) == table.rows

\* the values of one column, top to bottom
Column(data, name) == [i \in 1..Len(data.rows) |-> DictGet(data.rows[i], name)]

\* dict.update on metadata maps: the entries of extra over those of metadata
MetadataUpdate(metadata, extra) == extra @@ metadata

----------------------------------------------------------------------------
(* conversion.py: the row-level passes *)

UUID_METADATA_KEY == "uuid_columns"
UUID_VERSION_KEY == "uuid.version"
UUID_ENCODING_KEY == "uuid.encoding"
UUID_UTILS_KEY == "uuid_utils"
UUID_ENCODING_VALUE == "binary16"
UUID_UTILS_VALUE == "true"
SERIALIZED_FIELD_KIND_NDARRAY == "ndarray"

\* what _normalise_input returns
RowsAndType(rows, model_type) == [rows |-> rows, model_type |-> model_type]

\* a mutation of AppendRow: the row is put in front of the rows so far
AppendRowInFront(rows, row) == <<row>> \o rows

\* rows.append(row)
AppendRow(rows, row) == Append(rows, row)

\* a mutation of OtherModelType: any model instance passes
OtherModelTypeNever(item, model_type) == FALSE

\* type(item) is not model_type
OtherModelType(item, model_type) == item.cls # model_type

RECURSIVE NormaliseItems(_, _, _, _)
\* the loop of _normalise_input over obj[i..]: the rows so far and the model type so far
NormaliseItems(items, i, rows, model_type) ==
    IF i > Len(items) THEN Ok(RowsAndType(rows, model_type))
    ELSE LET item == items[i]
         IN IF item.k = "model"
            THEN IF IsNone(model_type)
                 THEN NormaliseItems(items, i + 1, AppendRow(rows, model_dump(item)), item.cls)
                 ELSE IF OtherModelType(item, model_type) THEN Err("SchemaMismatchError")
                 ELSE NormaliseItems(items, i + 1, AppendRow(rows, model_dump(item)), model_type)
            ELSE IF item.k = "dict"
            THEN NormaliseItems(items, i + 1, AppendRow(rows, item), model_type)
            ELSE Err("UnsupportedTypeError")

_normalise_input(obj) ==
    IF obj.k = "model" THEN Ok(RowsAndType(<<model_dump(obj)>>, obj.cls))
    ELSE IF obj.k = "dict" THEN Ok(RowsAndType(<<obj>>, None))
    ELSE IF obj.k \in {"list", "tuple"} THEN NormaliseItems(obj.v, 1, <<>>, None)
    ELSE Err("UnsupportedTypeError")

\* a mutation of _normalise_datetime: every value passes as it is
NormaliseDatetimeSkipped(value, policy) == Ok(value)

_normalise_datetime(value, policy) ==
    IF value.k # "datetime" THEN Ok(value)
    ELSE IF ~value.aware
    THEN IF policy = "normalize_utc" THEN Ok(ReplaceTzUtc(value))
         ELSE IF policy = "error_on_naive" THEN Err("ValueError")
         ELSE Ok(value)
    ELSE IF policy = "normalize_utc" THEN Ok(AsTimezoneUtc(value))
    ELSE Ok(value)

_restore_datetime(value, policy) ==
    IF value.k # "datetime" THEN Ok(value)
    ELSE IF policy = "normalize_utc"
    THEN IF value.aware THEN Ok(ReplaceTzNone(AsTimezoneUtc(value))) ELSE Ok(value)
    ELSE Ok(value)

\* _map_values: transform applied to every leaf under dicts, lists and tuples
_map_values(payload, transform(_)) ==
    LET RECURSIVE apply(_)
        apply(value) ==
            IF value.k = "dict"
            THEN LET items == [i \in 1..Len(value.v) |-> apply(value.v[i].val)]
                 IN IF FirstErr(items) # 0 THEN items[FirstErr(items)]
                    ELSE Ok(PyDict([i \in 1..Len(value.v) |->
                                Item(value.v[i].key, items[i].val)]))
            ELSE IF value.k = "list"
            THEN LET items == [i \in 1..Len(value.v) |-> apply(value.v[i])]
                 IN IF FirstErr(items) # 0 THEN items[FirstErr(items)]
                    ELSE Ok(PyList(Vals(items)))
            ELSE IF value.k = "tuple"
            THEN LET items == [i \in 1..Len(value.v) |-> apply(value.v[i])]
                 IN IF FirstErr(items) # 0 THEN items[FirstErr(items)]
                    ELSE Ok(PyTuple(Vals(items)))
            ELSE transform(value)
    IN apply(payload)

_normalise_datetime_values(rows, config) ==
    LET mapped == [i \in 1..Len(rows) |->
            LET normalise(value) == _normalise_datetime(value, config.datetime_policy)
            IN _map_values(rows[i], normalise)]
    IN IF FirstErr(mapped) # 0 THEN mapped[FirstErr(mapped)] ELSE Ok(Vals(mapped))

_restore_datetime_values(rows, policy) ==
    LET mapped == [i \in 1..Len(rows) |->
            LET restore(value) == _restore_datetime(value, policy)
            IN _map_values(rows[i], restore)]
    IN Vals(mapped)

\* a mutation of _metadata_datetime_policy: the caller's config always decides
MetadataPolicyIgnored(metadata, config) == config.datetime_policy

_metadata_datetime_policy(metadata, config) ==
    IF "datetime_policy" \in DOMAIN metadata THEN metadata["datetime_policy"]
    ELSE config.datetime_policy

\* what encode returns: the encoded value and the uuid_paths dict after it
Encoded(val, uuid_paths) == [val |-> val, uuid_paths |-> uuid_paths]

\* the entry _encode_special_types.encode makes or updates for a UUID met at a path
RecordUuidPath(uuid_paths, path, version) ==
    LET known == HasKey(uuid_paths, path)
        info == IF known THEN DictGet(uuid_paths, path)
                ELSE PyDict(<<Item("version", version)>>)
        merged == IF DictGet(info, "version") # version
                  THEN DictSet(info, "version", None) ELSE info
    IN DictSet(uuid_paths, path, merged)

RECURSIVE encode(_, _, _), EncodeEach(_, _, _, _)

\* encode applied to values[1..n] in order, the i-th under paths[i]
EncodeEach(values, paths, n, uuid_paths) ==
    IF n = 0 THEN Encoded(<<>>, uuid_paths)
    ELSE LET before == EncodeEach(values, paths, n - 1, uuid_paths)
             this == encode(values[n], paths[n], before.uuid_paths)
         IN Encoded(Append(before.val, this.val), this.uuid_paths)

\* _encode_special_types.encode
encode(value, path, uuid_paths) ==
    IF value.k = "uuid"
    THEN Encoded(PyBytes(uuid_bytes(value)),
                 RecordUuidPath(uuid_paths, path, uuid_version(value)))
    ELSE IF value.k = "enum" THEN Encoded(EnumValue(value), uuid_paths)
    ELSE IF value.k \in {"list", "tuple"}
    THEN LET items == EncodeEach(value.v, [i \in 1..Len(value.v) |-> path \o "[]"],
                                 Len(value.v), uuid_paths)
         IN Encoded(PyList(items.val), items.uuid_paths)
    ELSE IF value.k = "dict"
    THEN LET items == EncodeEach([i \in 1..Len(value.v) |-> value.v[i].val],
                                 [i \in 1..Len(value.v) |-> path \o "." \o value.v[i].key],
                                 Len(value.v), uuid_paths)
         IN Encoded(PyDict([i \in 1..Len(value.v) |-> Item(value.v[i].key, items.val[i])]),
                    items.uuid_paths)
    ELSE Encoded(value, uuid_paths)

RECURSIVE EncodeRows(_, _, _)
\* the row loop of _encode_special_types over rows[1..n]
EncodeRows(rows, n, uuid_paths) ==
    IF n = 0 THEN Encoded(<<>>, uuid_paths)
    ELSE LET before == EncodeRows(rows, n - 1, uuid_paths)
             original == rows[n]
             items == EncodeEach([i \in 1..Len(original.v) |-> original.v[i].val],
                                 Keys(original), Len(original.v), before.uuid_paths)
         IN Encoded(Append(before.val,
                           PyDict([i \in 1..Len(original.v) |->
                                      Item(original.v[i].key, items.val[i])])),
                    items.uuid_paths)

\* the metadata _encode_special_types builds from uuid_paths
UuidMetadata(uuid_paths) ==
    IF Len(uuid_paths.v) = 0 THEN NoMetadata
    ELSE LET versions == {DictGet(uuid_paths.v[i].val, "version").n :
                             i \in {j \in 1..Len(uuid_paths.v) :
                                       ~IsNone(DictGet(uuid_paths.v[j].val, "version"))}}
             base == (UUID_METADATA_KEY :> JsonDumps(uuid_paths))
                     @@ (UUID_ENCODING_KEY :> UUID_ENCODING_VALUE)
                     @@ (UUID_UTILS_KEY :> UUID_UTILS_VALUE)
         IN IF Cardinality(versions) = 1
            THEN (UUID_VERSION_KEY :> ToString(CHOOSE v \in versions : TRUE)) @@ base
            ELSE base

\* returns the encoded rows and the extra metadata
_encode_special_types(rows) ==
    LET done == EncodeRows(rows, Len(rows), PyDict(<<>>))
    IN [rows |-> done.val, metadata |-> UuidMetadata(done.uuid_paths)]

_decode_special_types(rows, metadata) ==
    IF DOMAIN metadata = {} \/ UUID_METADATA_KEY \notin DOMAIN metadata THEN rows
    ELSE LET raw == JsonLoads(metadata[UUID_METADATA_KEY])
             uuid_paths == {raw.v[i].key : i \in 1..Len(raw.v)}
             RECURSIVE decode(_, _)
             decode(value, path) ==
                 IF path \in uuid_paths
                 THEN IF IsNone(value) THEN None
                      ELSE IF value.k = "list"
                      THEN PyList([i \in 1..Len(value.v) |-> decode(value.v[i], path \o "[]")])
                      ELSE IF value.k = "tuple"
                      THEN PyTuple([i \in 1..Len(value.v) |-> decode(value.v[i], path \o "[]")])
                      ELSE IF value.k = "bytes" /\ ~IsPickle(value)
                      THEN uuid_from_bytes(value)
                      ELSE value
                 ELSE IF value.k = "list"
                 THEN PyList([i \in 1..Len(value.v) |-> decode(value.v[i], path \o "[]")])
                 ELSE IF value.k = "tuple"
                 THEN PyTuple([i \in 1..Len(value.v) |-> decode(value.v[i], path \o "[]")])
                 ELSE IF value.k = "dict"
                 THEN PyDict([i \in 1..Len(value.v) |->
                         Item(value.v[i].key,
                              decode(value.v[i].val, path \o "." \o value.v[i].key))])
                 ELSE value
         IN [r \in 1..Len(rows) |->
                PyDict([i \in 1..Len(rows[r].v) |->
                    Item(rows[r].v[i].key, decode(rows[r].v[i].val, rows[r].v[i].key))])]

_schema_serialised_fields(schema) ==
    {schema.fields[i].name : i \in {j \in 1..Len(schema.fields) :
        \E kind \in {SERIALIZED_FIELD_KIND_DICT_ANY, SERIALIZED_FIELD_KIND_NDARRAY} :
            <<SERIALIZED_FIELD_METADATA_KEY, kind>> \in schema.fields[j].metadata}}

_serialise_field_values(rows, schema) ==
    LET target_fields == _schema_serialised_fields(schema)
    IN IF target_fields = {} THEN rows
       ELSE [r \in 1..Len(rows) |->
                PyDict([i \in 1..Len(rows[r].v) |->
                    LET item == rows[r].v[i]
                    IN IF item.key \in target_fields /\ ~IsNone(item.val)
                       THEN Item(item.key, PickleDumps(item.val))
                       ELSE item])]

_deserialise_field_values(rows, schema) ==
    LET target_fields == _schema_serialised_fields(schema)
    IN IF target_fields = {} THEN Ok(rows)
       ELSE LET loaded == [r \in 1..Len(rows) |-> [i \in 1..Len(rows[r].v) |->
                    LET item == rows[r].v[i]
                    IN IF item.key \in target_fields /\ ~IsNone(item.val)
                          /\ item.val.k = "bytes"
                       THEN PickleLoads(item.val)
                       ELSE Ok(item.val)]]
            IN IF \E r \in 1..Len(rows) : FirstErr(loaded[r]) # 0
               THEN Err("UnpicklingError")
               ELSE Ok([r \in 1..Len(rows) |->
                        PyDict([i \in 1..Len(rows[r].v) |->
                            Item(rows[r].v[i].key, loaded[r][i].val)])])

_fully_qualified_name(model_type) == model_type.module \o "." \o model_type.name

\* _hash_json(_model_schema_hash_payload(model_type)): the digest of the model
\* class's JSON schema, a function of the class alone
ModelSchemaHash(model_type) == [sha256 |-> model_type]

PYDANTIC_VERSION == "2"

_apply_metadata(table, model_type, config) ==
    IF IsNone(model_type) THEN table
    ELSE LET cfg == OrDefault(config)
             metadata == ("pydantic_model_fqn" :> _fully_qualified_name(model_type))
                         @@ ("pydantic_version" :> PYDANTIC_VERSION)
                         @@ ("datetime_policy" :> cfg.datetime_policy)
                         @@ ("model_schema_hash" :> ModelSchemaHash(model_type))
         IN replace_schema_metadata(table, MetadataUpdate(table.schema.metadata, metadata))

----------------------------------------------------------------------------
(* conversion.py: to_arrow and from_arrow *)

\* a mutation of EmptyInput: the schema handed in is dropped
EmptyInputWithoutSchema(schema, model_type, active_config) ==
    Ok(_apply_metadata(Table_from_pylist(<<>>, pa_schema(<<>>)).val, model_type,
                       active_config))

\* the "if not rows" branch of to_arrow
EmptyInput(schema, model_type, active_config) ==
    IF IsNone(schema) THEN Err("ValueError")
    ELSE LET table == Table_from_pylist(<<>>, schema)
         IN Ok(_apply_metadata(table.val, model_type, active_config))

\* the tail of to_arrow: the table as it is, or its one record batch
TableOrBatch(table, as_table) ==
    IF as_table THEN Ok(table)
    ELSE IF Len(to_batches(table)) > 0 THEN Ok(to_batches(table)[1])
    ELSE Ok(RecordBatch_from_empty_arrays(table.schema))

\* the "if extra_metadata" step of to_arrow
WithExtraMetadata(table, extra_metadata) ==
    IF DOMAIN extra_metadata # {}
    THEN replace_schema_metadata(table, MetadataUpdate(table.schema.metadata, extra_metadata))
    ELSE table

\* the "if schema is not None" step of to_arrow
SerialisedFor(rows, schema) ==
    IF ~IsNone(schema) THEN _serialise_field_values(rows, schema) ELSE rows

\* the "if schema is None and model_type is not None" step of to_arrow
SchemaFor(schema, model_type, active_config) ==
    IF IsNone(schema) /\ ~IsNone(model_type)
    THEN schema_from_model(model_type, active_config)
    ELSE Ok(schema)

to_arrow(obj, schema, config, as_table) ==
    Bind(_normalise_input(obj), LAMBDA input :
        IF Len(input.rows) = 0
        THEN EmptyInput(schema, input.model_type, OrDefault(config))
        ELSE
    Bind(SchemaFor(schema, input.model_type, OrDefault(config)), LAMBDA derived :
    Bind(_normalise_datetime_values(input.rows, OrDefault(config)), LAMBDA normalised :
    With(_encode_special_types(normalised), LAMBDA encoded :
    Bind(Table_from_pylist(SerialisedFor(encoded.rows, derived), derived), LAMBDA built :
    With(_apply_metadata(built, input.model_type, OrDefault(config)), LAMBDA tagged :
        TableOrBatch(WithExtraMetadata(tagged, encoded.metadata), as_table)))))))

\* a pa.Array / pa.ChunkedArray: its type and its values
pa_Array(kind, type, values) == [k |-> kind, type |-> type, values |-> values]

_table_from_struct_array(struct_array) ==
    LET fields == struct_array.type.fields
        \* a pyarrow array carries no schema_metadata attribute
        schema == pa_schema([i \in 1..Len(fields) |->
                     pa_field(fields[i].name, fields[i].type, fields[i].nullable,
                              fields[i].metadata)])
    IN pa_Table(schema,
            [r \in 1..Len(struct_array.values) |->
                PyDict([i \in 1..Len(fields) |->
                    Item(fields[i].name,
                         IF IsNone(struct_array.values[r]) THEN None
                         ELSE DictGet(struct_array.values[r], fields[i].name))])])

_ensure_table(data) ==
    IF data.k = "Table" THEN Ok(data)
    ELSE IF data.k = "RecordBatch" THEN Ok(Table_from_batches(data))
    ELSE IF data.k \in {"ChunkedArray", "Array"}
    THEN IF data.type.t = "struct" THEN Ok(_table_from_struct_array(data))
         ELSE Ok(pa_Table(pa_schema(<<pa_field("value", data.type, TRUE, {})>>),
                          [r \in 1..Len(data.values) |->
                              PyDict(<<Item("value", data.values[r])>>)]))
    ELSE Err("UnsupportedTypeError")

_coerce_row(row, target, validate) ==
    IF target.o = "model"
    THEN IF validate THEN model_validate(target.cls, row)
         ELSE model_construct(target.cls, row)
    ELSE Ok(row)

\* a mutation of NotSingleRow: only an empty result is refused
NotSingleRowOnlyIfEmpty(rows) == Len(rows) = 0

\* len(rows) != 1
NotSingleRow(rows) == Len(rows) # 1

\* type_hint is None, or an annotation
\* the tail of from_arrow: the rows as the type hint asks for them
RowsAs(rows, type_hint, validate) ==
    IF "o" \notin DOMAIN type_hint THEN Ok(PyList(rows))
    ELSE IF get_origin(type_hint) \in {"list", "Sequence"}
    THEN IF Len(get_args(type_hint)) = 0 THEN Err("UnsupportedTypeError")
         ELSE With([i \in 1..Len(rows) |->
                        _coerce_row(rows[i], get_args(type_hint)[1], validate)],
                   LAMBDA items : IF FirstErr(items) # 0 THEN items[FirstErr(items)]
                                  ELSE Ok(PyList(Vals(items))))
    ELSE IF type_hint.o = "model"
    THEN IF NotSingleRow(rows) THEN Err("SchemaMismatchError")
         ELSE _coerce_row(rows[1], type_hint, validate)
    ELSE Ok(PyList(rows))

from_arrow(data, type_hint, validate, config) ==
    Bind(_ensure_table(data), LAMBDA table :
    Bind(_deserialise_field_values(to_pylist(table), table.schema), LAMBDA loaded :
        RowsAs(_restore_datetime_values(
                   _decode_special_types(loaded, table.schema.metadata),
                   _metadata_datetime_policy(table.schema.metadata, OrDefault(config))),
               type_hint, validate)))

----------------------------------------------------------------------------
(* Conversion calls: to_arrow, then from_arrow on what it returned *)

\* what else to_arrow is handed: one instance, the empty list, a list of two
\* model classes, plain dict rows, a list holding a string, and a string
OtherInputs ==
    {CHOOSE x \in SimpleInstances : x.v[1].val = PyInt(1),
     PyList(<<>>),
     PyList(<<CHOOSE x \in SimpleInstances : x.v[1].val = PyInt(1),
              CHOOSE x \in UuidInstances : x.v[2].val = PyStr("one")>>),
     PyDict(<<Item("id", PyInt(7)), Item("blob", PyBytes(uuid_bytes(UuidV4)))>>),
     PyList(<<PyDict(<<Item("id", UuidV4), Item("when", PyDatetime(720, TRUE, 540))>>)>>),
     PyList(<<PyStr("x")>>),
     PyStr("x")}

\* dict rows with a UUID and the 16 bytes of another under the same key
SharedPathRows ==
    PyList(<<PyDict(<<Item("id", UuidV4), Item("n", PyInt(1))>>),
             PyDict(<<Item("id", PyBytes(uuid_bytes(UuidV7))), Item("n", None)>>)>>)

\* sequences to_arrow has to refuse: a second model class in second or third
\* place or after a dict row, and a string after a model instance
RefusedInputs ==
    LET simple == CHOOSE x \in SimpleInstances : x.v[1].val = PyInt(1)
        other == CHOOSE x \in UuidInstances : x.v[2].val = PyStr("one")
        row == PyDict(<<Item("id", PyInt(7))>>)
    IN {PyList(<<other, simple>>),
        PyList(<<simple, simple, other>>),
        PyList(<<simple, row, other>>),
        PyList(<<row, simple, other>>),
        PyList(<<simple, PyStr("x")>>),
        PyTuple(<<simple, PyInt(3), simple>>)}

\* a dict row with the keys of SimpleModel and a string where an int belongs
UnvalidatableRows ==
    PyList(<<PyDict(<<Item("id", PyStr("x")), Item("name", PyStr("n")),
                      Item("value", None)>>)>>)

\* a dict row with datetimes at depth: an aware one at the top, naive ones in
\* a list, an aware one in a tuple inside a dict
NestedDatetimeRows ==
    PyList(<<PyDict(<<Item("when", PyDatetime(720, TRUE, 540)),
                      Item("log", PyList(<<PyDatetime(60, FALSE, 0), PyDatetime(90, FALSE, 0)>>)),
                      Item("meta", PyDict(<<Item("at",
                            PyTuple(<<PyDatetime(720, TRUE, -300)>>))>>))>>)>>)

\* the same with aware datetimes only
NestedAwareRows ==
    PyList(<<PyDict(<<Item("when", PyDatetime(720, TRUE, 540)),
                      Item("meta", PyDict(<<Item("at",
                            PyTuple(<<PyDatetime(720, TRUE, -300)>>))>>))>>)>>)

ToArrowInputs ==
    ModelLists \cup OtherInputs \cup RefusedInputs
        \cup {UnvalidatableRows, NestedDatetimeRows, NestedAwareRows, SharedPathRows}

\* explicit schemas handed to to_arrow
ExplicitSchemas ==
    {schema_from_model(SimpleModel, None).val,
     [fields |-> schema_from_model(UuidModel, None).val.fields,
      metadata |-> ("origin" :> "caller")],
     pa_schema(<<>>)}

ConvConfigs ==
    {None,
     DAConfigOf("preserve_tz", DefaultPrecision, DefaultScale, FALSE),
     DAConfigOf("error_on_naive", DefaultPrecision, DefaultScale, FALSE)}

\* whether obj is a non-empty list of instances of one model class
IsModelList(obj) ==
    /\ obj.k = "list" /\ Len(obj.v) > 0
    /\ \A i \in 1..Len(obj.v) : obj.v[i].k = "model" /\ obj.v[i].cls = obj.v[1].cls

NoHint == None

\* the type hints from_arrow is called with for the data to_arrow made of obj
HintsFor(obj) ==
    IF IsModelList(obj)
    THEN {NoHint, ListOf(ModelAnn(obj.v[1].cls)), ModelAnn(obj.v[1].cls)}
    ELSE IF obj.k = "model" THEN {NoHint, ListOf(ModelAnn(obj.cls)), ModelAnn(obj.cls)}
    ELSE IF obj = PyList(<<>>) THEN {NoHint, ModelAnn(SimpleModel)}
    ELSE IF obj = UnvalidatableRows THEN {NoHint, ListOf(ModelAnn(SimpleModel))}
    ELSE {NoHint}

\* dpa.to_arrow(obj, schema=schema, config=config, as_table=as_table)
CallToArrow ==
    /\ pc = "idle"
    /\ \E obj \in ToArrowInputs, config \in ConvConfigs, as_table \in BOOLEAN :
       \E schema \in (IF obj = PyList(<<>>) THEN ExplicitSchemas ELSE {}) \cup {None} :
            /\ c_obj' = obj
            /\ c_schema' = schema
            /\ c_config' = config
            /\ c_as_table' = as_table
            /\ c_arrow' = to_arrow(obj, schema, config, as_table)
    /\ pc' = "encoded"
    /\ UNCHANGED <<c_data, c_validate, c_dconfig, c_hint, c_restored>>
    /\ UNCHANGED <<svars, bvars>>

\* RecordBatch.to_struct_array(): one struct per row; the struct type keeps the
\* schema's fields and their metadata, the schema metadata stays behind
to_struct_array(batch) == pa_Array("Array", pa_struct(batch.schema.fields), batch.rows)

\* the shapes in which the data to_arrow returned reaches from_arrow
Shapes(arrow) ==
    IF arrow.k = "RecordBatch"
    THEN {arrow, Table_from_batches(arrow), to_struct_array(arrow)}
    ELSE {arrow}

\* a from_arrow call: its data and keyword arguments
FromArrowCall(data, type_hint, validate, config) ==
    [data |-> data, type_hint |-> type_hint, validate |-> validate, config |-> config]

\* the config with fast_path_skip_validation=True
SkipValidation(config) ==
    DAConfigOf(OrDefault(config).datetime_policy, DefaultPrecision, DefaultScale, TRUE)

\* a config with another datetime_policy
OtherPolicy(config) ==
    DAConfigOf(IF OrDefault(config).datetime_policy = "normalize_utc"
               THEN "preserve_tz" ELSE "normalize_utc",
               DefaultPrecision, DefaultScale, FALSE)

\* the from_arrow calls made on what to_arrow(obj, config=config) returned: on
\* each shape of the data, with to_arrow's config or another datetime policy;
\* and on the data as it is, with and without validate and the fast path
FromArrowCalls(arrow, obj, config) ==
    {FromArrowCall(data, type_hint, TRUE, cfg) :
        data \in Shapes(arrow), type_hint \in HintsFor(obj),
        cfg \in {config, OtherPolicy(config)}}
    \cup
    {FromArrowCall(arrow, type_hint, validate, cfg) :
        type_hint \in HintsFor(obj) \ {NoHint}, validate \in BOOLEAN,
        cfg \in {config, SkipValidation(config)}}

\* dpa.from_arrow(data, type_hint=type_hint, validate=validate, config=config)
\* on what to_arrow returned
CallFromArrow ==
    /\ pc = "encoded"
    /\ c_arrow.ok
    /\ \E call \in FromArrowCalls(c_arrow.val, c_obj, c_config) :
            /\ c_data' = call.data
            /\ c_hint' = call.type_hint
            /\ c_validate' = call.validate
            /\ c_dconfig' = call.config
            /\ c_restored' = from_arrow(call.data, call.type_hint, call.validate, call.config)
    /\ pc' = "decoded"
    /\ UNCHANGED <<c_obj, c_schema, c_config, c_as_table, c_arrow>>
    /\ UNCHANGED <<svars, bvars>>

\* what from_arrow is handed that to_arrow did not make: arrays and chunked
\* arrays of ints and strings, a chunked struct array, and Python objects
ReceivedData ==
    {pa_Array("Array", pa_int64, <<PyInt(1), PyInt(2)>>),
     pa_Array("ChunkedArray", pa_string, <<PyStr("a")>>),
     pa_Array("Array", pa_binary, <<>>),
     pa_Array("ChunkedArray", pa_struct(<<pa_field("id", pa_int64, TRUE, {})>>),
              <<PyDict(<<Item("id", PyInt(1))>>), None>>),
     PyList(<<PyDict(<<Item("id", PyInt(1))>>)>>),
     PyStr("x"),
     None}

\* dpa.from_arrow(data, config=config) on data received from elsewhere
CallFromArrowOnReceived ==
    /\ pc = "idle"
    /\ \E data \in ReceivedData, config \in ConvConfigs :
            /\ c_data' = data
            /\ c_hint' = NoHint
            /\ c_validate' = TRUE
            /\ c_dconfig' = config
            /\ c_restored' = from_arrow(data, NoHint, TRUE, config)
    /\ pc' = "read"
    /\ UNCHANGED <<c_obj, c_schema, c_config, c_as_table, c_arrow>>
    /\ UNCHANGED <<svars, bvars>>

----------------------------------------------------------------------------
(* batch.py: BatchBuilder.  self is the record of the instance attributes,   *)
(* held in b_rows, b_schema, b_model_type and b_config; a method gives the   *)
(* attributes after the call and what the call returned or raised.           *)

Self(rows, schema, model_type, config) ==
    [rows |-> rows, schema |-> schema, model_type |-> model_type, config |-> config]

Returned(self, result) == [self |-> self, result |-> result]

is_pa_Schema(schema) == "metadata" \in DOMAIN schema
is_BaseModel_type(schema) == "module" \in DOMAIN schema

\* BatchBuilder(schema=schema, config=config)
BatchBuilder(schema, config) ==
    IF is_pa_Schema(schema) THEN Ok(Self(<<>>, schema, None, OrDefault(config)))
    ELSE IF is_BaseModel_type(schema)
    THEN Bind(schema_from_model(schema, OrDefault(config)), LAMBDA derived :
            Ok(Self(<<>>, derived, schema, OrDefault(config))))
    ELSE IF IsNone(schema) THEN Ok(Self(<<>>, None, None, OrDefault(config)))
    ELSE Err("TypeError")

\* a mutation of TypeMismatch: no appended model is taken as of another type
TypeMismatchNever(obj, model_type) == FALSE

\* type(obj) is not self._model_type
TypeMismatch(obj, model_type) == obj.cls # model_type

\* self._rows.append(obj)
Buffered(self, obj) == [self EXCEPT !.rows = Append(self.rows, obj)]

\* the first model appended to a builder without a schema: the model type is
\* bound, then the schema derived
FirstAppend(self, obj, derived) ==
    IF derived.ok
    THEN Returned([Buffered(self, obj) EXCEPT !.model_type = obj.cls,
                                              !.schema = derived.val], Ok(None))
    ELSE Returned([self EXCEPT !.model_type = obj.cls], derived)

append(self, obj) ==
    IF obj.k = "model"
    THEN IF IsNone(self.model_type)
         THEN IF IsNone(self.schema)
              THEN FirstAppend(self, obj, schema_from_model(obj.cls, self.config))
              ELSE Returned([Buffered(self, obj) EXCEPT !.model_type = obj.cls], Ok(None))
         ELSE IF TypeMismatch(obj, self.model_type)
         THEN Returned(self, Err("TypeError"))
         ELSE Returned(Buffered(self, obj), Ok(None))
    ELSE IF obj.k = "dict" THEN Returned(Buffered(self, obj), Ok(None))
    ELSE Returned(self, Err("TypeError"))

\* a mutation of EmptyRecordBatch: no batch is made of an empty buffer
EmptyRecordBatchRefused(schema) == Err("ValueError")

\* the "if not self._rows" branch of to_record_batch
EmptyRecordBatch(schema) ==
    IF IsNone(schema) THEN Err("ValueError")
    ELSE Ok(RecordBatch_from_empty_arrays(schema))

\* the tail of to_record_batch: the record batch of what to_arrow returned
AsRecordBatch(arrow_obj) ==
    IF arrow_obj.k = "RecordBatch" THEN Ok(arrow_obj)
    ELSE IF Len(to_batches(arrow_obj)) > 0 THEN Ok(to_batches(arrow_obj)[1])
    ELSE Ok(pa_RecordBatch(arrow_obj.schema, <<>>))

\* a mutation of to_record_batch: the buffer is emptied once the batch is made
to_record_batch_draining(self) ==
    IF Len(self.rows) = 0 THEN Returned(self, EmptyRecordBatch(self.schema))
    ELSE Returned([self EXCEPT !.rows = <<>>],
                  Bind(to_arrow(PyList(self.rows), self.schema, self.config, FALSE),
                       LAMBDA arrow_obj : AsRecordBatch(arrow_obj)))

to_record_batch(self) ==
    IF Len(self.rows) = 0 THEN Returned(self, EmptyRecordBatch(self.schema))
    ELSE Returned(self, Bind(to_arrow(PyList(self.rows), self.schema, self.config, FALSE),
                             LAMBDA arrow_obj : AsRecordBatch(arrow_obj)))

\* a mutation of ClearedRows: the buffered rows stay
ClearedRowsKept(rows) == rows

\* self._rows.clear()
ClearedRows(rows) == <<>>

clear(self) == Returned([self EXCEPT !.rows = ClearedRows(self.rows)], Ok(None))

----------------------------------------------------------------------------
(* BatchBuilder calls *)

\* a model whose field has no Arrow type: schema_from_model raises on it
OpaqueModel == ModelClass("OpaqueModel", <<ModelField("blob", Plain("Any"), TRUE)>>)

\* what a builder is constructed with
BuilderSchemas ==
    {None, schema_from_model(SimpleModel, None).val, SimpleModel, UuidModel}

BuilderConfigs == {None, DAConfigOf("preserve_tz", DefaultPrecision, DefaultScale, FALSE)}

\* what append is handed
BuilderInputs ==
    {CHOOSE x \in SimpleInstances : x.v[1].val = PyInt(1),
     CHOOSE x \in SimpleInstances : x.v[1].val = PyInt(2),
     CHOOSE x \in UuidInstances : x.v[2].val = PyStr("one"),
     New(OpaqueModel, <<PyInt(5)>>),
     PyDict(<<Item("id", PyInt(7)), Item("name", PyStr("d")), Item("value", None)>>),
     PyStr("x")}

\* the call just made: its name, its argument, its outcome and the call before it
Call(op, arg, result, prev) == [op |-> op, arg |-> arg, result |-> result, prev |-> prev]

\* the attributes are those of the builder just constructed
Constructed(schema, builder) ==
    /\ builder.ok
    /\ b_rows = builder.val.rows
    /\ b_schema = builder.val.schema
    /\ b_model_type = builder.val.model_type
    /\ b_config = builder.val.config
    /\ b_last = Call("__init__", schema, Ok(None), "")

BuilderInit ==
    \E schema \in BuilderSchemas, config \in BuilderConfigs :
        Constructed(schema, BatchBuilder(schema, config))

BuilderSelf == Self(b_rows, b_schema, b_model_type, b_config)

\* the attributes after a call and the record of the call
BuilderAfter(op, arg, returned) ==
    /\ b_rows' = returned.self.rows
    /\ b_schema' = returned.self.schema
    /\ b_model_type' = returned.self.model_type
    /\ b_config' = returned.self.config
    /\ b_last' = Call(op, arg, returned.result, b_last.op)
    /\ UNCHANGED <<svars, cvars>>

\* builder.append(obj)
DoAppend ==
    /\ Len(b_rows) < MaxBuf
    /\ \E obj \in BuilderInputs : BuilderAfter("append", obj, append(BuilderSelf, obj))

\* builder.to_record_batch()
DoToRecordBatch == BuilderAfter("to_record_batch", None, to_record_batch(BuilderSelf))

\* builder.clear()
DoClear == BuilderAfter("clear", None, clear(BuilderSelf))

----------------------------------------------------------------------------
(* The claims about to_arrow and from_arrow *)

\* the model class of a list of model instances
ClassOf(obj) == obj.v[1].cls

\* from_arrow was called on the data as to_arrow returned it, validating, with
\* the config to_arrow was given
DecodedAsReturned ==
    pc = "decoded" /\ c_data = c_arrow.val /\ c_validate /\ c_dconfig = c_config

\* a to_arrow call on a list of model instances has returned data
EncodedModels == pc # "idle" /\ IsModelList(c_obj) /\ c_arrow.ok

\* C1: from_arrow(to_arrow(rows), type_hint=list[T]) returns a list equal to
\* rows, for every list of valid instances of one model type and every
\* datetime policy.
C1_RoundTrip ==
    (DecodedAsReturned /\ IsModelList(c_obj) /\ c_hint = ListOf(ModelAnn(ClassOf(c_obj))))
        => (c_restored.ok /\ PyEq(c_restored.val, c_obj))

\* the cell is the Arrow form of a field value: null for None, the value
\* itself for int / bool / float / str, the 16 bytes of a UUID, the value of an
\* enum member, the same instant for a datetime (a naive one read as UTC),
\* a struct of such cells for a nested model, one blob for an opaque dict
RECURSIVE CellHolds(_, _)
CellHolds(cell, value) ==
    IF IsNone(value) THEN IsNone(cell)
    ELSE IF value.k \in {"int", "bool", "float", "str"} THEN cell = value
    ELSE IF value.k = "uuid" THEN cell = PyBytes(uuid_bytes(value))
    ELSE IF value.k = "enum" THEN cell = EnumValue(value)
    ELSE IF value.k = "datetime"
    THEN /\ cell.k = "datetime"
         /\ cell.wall - cell.off = value.wall - (IF value.aware THEN value.off ELSE 0)
    ELSE IF value.k = "model"
    THEN /\ cell.k = "dict"
         /\ Keys(cell) = Keys(value)
         /\ \A j \in 1..Len(value.v) : CellHolds(cell.v[j].val, value.v[j].val)
    ELSE IF value.k = "dict"
    THEN IsPickle(cell) /\ Keys(PickleLoads(cell).val) = Keys(value)
    ELSE FALSE

\* the result has len(rows) rows and the model's fields in declaration order,
\* and holds(cell, value) for the cell of column f at position i and field f
\* of the i-th instance
ColumnWise(holds(_, _)) ==
    LET data == c_arrow.val
        fields == ClassOf(c_obj).fields
    IN /\ Len(data.rows) = Len(c_obj.v)
       /\ [j \in 1..Len(data.schema.fields) |-> data.schema.fields[j].name]
            = [j \in 1..Len(fields) |-> fields[j].name]
       /\ \A j \in 1..Len(fields) : \A i \in 1..Len(c_obj.v) :
            holds(Column(data, fields[j].name)[i], DictGet(c_obj.v[i], fields[j].name))

\* C2: to_arrow over a list of model instances gives len(rows) rows, the
\* model's fields in declaration order as the schema, and in column f at
\* position i a value equal to field f of the i-th instance (null for None).
C2_ColumnWise == EncodedModels => ColumnWise(LAMBDA cell, value : cell = value)

\* C2, amended: to_arrow over a list of model instances gives len(rows) rows,
\* the model's fields in declaration order as the schema, and in column f at
\* position i the Arrow form of field f of the i-th instance: the value itself
\* for int, bool, float and str, null for None, 16 bytes for a UUID, the
\* member's value for an enum, the same instant for a datetime, a struct for a
\* nested model and one blob for an opaque dict.
C2_ColumnWiseEncoded == EncodedModels => ColumnWise(CellHolds)

\* two rows that differ were encoded, the second one with a None field
C2_Witness ==
    /\ EncodedModels
    /\ Len(c_obj.v) = 2
    /\ c_obj.v[1] # c_obj.v[2]
    /\ \E j \in 1..Len(c_obj.v[2].v) : IsNone(c_obj.v[2].v[j].val)
    /\ Len(c_arrow.val.rows) = 2

\* C4: to_arrow([], schema=S) returns zero rows with the schema S, and
\* to_arrow([], schema=None) raises ValueError.
C4_EmptyInputPolicy ==
    (pc # "idle" /\ c_obj = PyList(<<>>)) =>
        IF IsNone(c_schema) THEN c_arrow = Err("ValueError")
        ELSE /\ c_arrow.ok
             /\ Len(c_arrow.val.rows) = 0
             /\ c_arrow.val.schema = c_schema

\* the empty list was converted under a schema that has fields
C4_Witness ==
    /\ pc # "idle" /\ c_obj = PyList(<<>>)
    /\ ~IsNone(c_schema) /\ Len(c_schema.fields) > 0
    /\ c_arrow.ok

\* the places of a value where a UUID sits: the dotted path the manifest
\* names it by, and the keys and indexes that lead to it
RECURSIVE UuidSites(_, _, _)
UuidSites(value, path, access) ==
    IF value.k = "uuid" THEN {[path |-> path, access |-> access]}
    ELSE IF value.k \in {"list", "tuple"}
    THEN UNION {UuidSites(value.v[i], path \o "[]", Append(access, [index |-> i])) :
                    i \in 1..Len(value.v)}
    ELSE IF value.k \in {"dict", "model"}
    THEN UNION {UuidSites(value.v[i].val,
                          IF path = "" THEN value.v[i].key
                          ELSE path \o "." \o value.v[i].key,
                          Append(access, [key |-> value.v[i].key])) :
                    i \in 1..Len(value.v)}
    ELSE {}

\* the value found in a row by following keys and indexes; a blob is opened
RECURSIVE At(_, _)
At(value, access) ==
    IF Len(access) = 0 THEN value
    ELSE IF IsNone(value) THEN None
    ELSE IF IsPickle(value) THEN At(value.pickled, access)
    ELSE IF "key" \in DOMAIN access[1]
    THEN IF value.k \in {"dict", "model"}
         THEN At(DictGet(value, access[1].key), Tail(access))
         ELSE None
    ELSE IF value.k \in {"list", "tuple"} /\ access[1].index <= Len(value.v)
         THEN At(value.v[access[1].index], Tail(access))
         ELSE None

\* C5: wherever a UUID occurs in the rows to_arrow encodes, uuid_columns names
\* its path and uuid.encoding is binary16, the stored value is its 16 bytes,
\* and from_arrow on the untouched result returns an equal UUID at that path.
C5_UuidManifest ==
    (DecodedAsReturned /\ IsModelList(c_obj) /\ c_restored.ok /\ c_restored.val.k = "list") =>
        \A i \in 1..Len(c_obj.v) : \A site \in UuidSites(c_obj.v[i], "", <<>>) :
            LET metadata == c_arrow.val.schema.metadata
                original == At(c_obj.v[i], site.access)
            IN /\ UUID_METADATA_KEY \in DOMAIN metadata
               /\ HasKey(JsonLoads(metadata[UUID_METADATA_KEY]), site.path)
               /\ UUID_ENCODING_KEY \in DOMAIN metadata
               /\ metadata[UUID_ENCODING_KEY] = UUID_ENCODING_VALUE
               /\ At(c_arrow.val.rows[i], site.access) = PyBytes(uuid_bytes(original))
               /\ At(c_restored.val.v[i], site.access) = original

\* C10: to_arrow returns a RecordBatch when as_table is False and a Table when
\* it is True, and the two hold the same rows, schema and schema metadata.
C10_BatchAndTable ==
    (pc \in {"encoded", "decoded"} /\ c_arrow.ok) =>
        LET other == to_arrow(c_obj, c_schema, c_config, ~c_as_table)
        IN /\ c_arrow.val.k = (IF c_as_table THEN "Table" ELSE "RecordBatch")
           /\ other.ok
           /\ other.val.rows = c_arrow.val.rows
           /\ other.val.schema = c_arrow.val.schema

\* from_arrow was called, validating and with to_arrow's config, on one of the
\* shapes of a record batch to_arrow made of model instances, to get them back
DecodedShapeOfBatch ==
    /\ pc = "decoded" /\ IsModelList(c_obj)
    /\ c_arrow.val.k = "RecordBatch" /\ c_data \in Shapes(c_arrow.val)
    /\ c_validate /\ c_dconfig = c_config
    /\ c_hint = ListOf(ModelAnn(ClassOf(c_obj)))

\* C11: for a RecordBatch B that to_arrow made of model instances, from_arrow
\* of B, of the Table built from B and of B's struct array, with the same
\* type_hint, return equal lists, each equal to the original instances.
C11_ThreeShapes ==
    DecodedShapeOfBatch =>
        /\ c_restored.ok
        /\ PyEq(c_restored.val, c_obj)
        /\ \A data \in Shapes(c_arrow.val) :
                from_arrow(data, c_hint, c_validate, c_dconfig) = c_restored

----------------------------------------------------------------------------
(* The claims about BatchBuilder *)

\* C7: to_record_batch with no buffered rows returns a zero-row RecordBatch
\* of exactly the bound schema when the builder has a schema, and raises
\* ValueError when it has none.
C7_EmptyRecordBatch ==
    (b_last.op = "to_record_batch" /\ Len(b_rows) = 0) =>
        IF IsNone(b_schema) THEN b_last.result = Err("ValueError")
        ELSE /\ b_last.result.ok
             /\ b_last.result.val.k = "RecordBatch"
             /\ Len(b_last.result.val.rows) = 0
             /\ b_last.result.val.schema = b_schema

\* a cleared builder with a schema was asked for its record batch
C7_Witness ==
    /\ b_last.op = "to_record_batch" /\ b_last.prev = "clear"
    /\ Len(b_rows) = 0
    /\ ~IsNone(b_schema) /\ Len(b_schema.fields) > 0
    /\ b_last.result.ok

\* C8: no call unbinds or replaces a bound schema or model type; clear()
\* empties the buffer and keeps both; right after clear() an append of
\* another model type is rejected and one of the bound type is accepted.
C8_BindingKept ==
    [][/\ ~IsNone(b_schema) => b_schema' = b_schema
       /\ ~IsNone(b_model_type) => b_model_type' = b_model_type
       /\ b_last'.op = "clear" =>
            /\ Len(b_rows') = 0
            /\ b_schema' = b_schema
            /\ b_model_type' = b_model_type
       /\ (/\ b_last.op = "clear" /\ b_last'.op = "append"
           /\ b_last'.arg.k = "model" /\ ~IsNone(b_model_type)) =>
            IF b_last'.arg.cls = b_model_type
            THEN b_last'.result.ok /\ b_rows' = <<b_last'.arg>>
            ELSE b_last'.result = Err("TypeError") /\ b_rows' = b_rows]_vars

\* right after clear(), a model of another type was appended and rejected
C8_Witness ==
    /\ b_last.op = "append" /\ b_last.prev = "clear"
    /\ b_last.arg.k = "model"
    /\ ~IsNone(b_model_type) /\ b_last.arg.cls # b_model_type
    /\ b_last.result = Err("TypeError")
    /\ Len(b_rows) = 0

\* C9: every buffered model instance is of the bound model type, and an
\* append of an instance of another type raises TypeError.
C9_OneModelType ==
    /\ \A i \in 1..Len(b_rows) :
            b_rows[i].k = "model" => b_rows[i].cls = b_model_type
    /\ (b_last.op = "append" /\ b_last.arg.k = "model" /\ b_last.arg.cls # b_model_type)
            => b_last.result = Err("TypeError")

\* a model is buffered and the append of a model of another type was rejected
C9_Witness ==
    /\ Len(b_rows) > 0 /\ b_rows[1].k = "model"
    /\ b_last.op = "append" /\ b_last.arg.k = "model"
    /\ b_last.arg.cls # b_rows[1].cls
    /\ b_last.result = Err("TypeError")

----------------------------------------------------------------------------
(* The claims about schema_from_model *)

\* the value kinds of an Enum class's members
MemberKinds(cls) == {cls.members[i].value.k : i \in 1..Len(cls.members)}

\* C3: in every schema schema_from_model returns, a column is nullable exactly
\* when its field is declared Optional[X] (whether or not the field has a
\* default), and the column type of an Optional[X] field is the column type
\* the same model gets with the field declared X.
C3_NullableIffOptional ==
    (Called(s_result) /\ s_result.ok) =>
        \A i \in 1..Len(s_model.fields) :
            LET field == s_model.fields[i]
                column == s_result.val.fields[i]
            IN /\ column.name = field.name
               /\ column.nullable <=> IsOptionalAnn(field.annotation)
               /\ (i = 2 /\ IsOptionalAnn(field.annotation)) =>
                    LET plain == schema_from_model(
                                    GeneratedModel(OptionalInner(field.annotation),
                                                   field.required), s_config)
                    IN /\ plain.ok
                       /\ plain.val.fields[2].type = column.type
                       /\ ~plain.val.fields[2].nullable

\* C3 witness: a defaulted Optional[float] field came out nullable float64 next
\* to a required int field that came out non-nullable.
C3_Witness ==
    /\ Called(s_result) /\ s_result.ok
    /\ IsOptionalAnn(s_model.fields[2].annotation)
    /\ OptionalInner(s_model.fields[2].annotation).o = "float"
    /\ ~s_model.fields[2].required
    /\ s_result.val.fields[2].nullable
    /\ s_result.val.fields[2].type = pa_float64
    /\ ~s_result.val.fields[1].nullable

\* the enum class of a field declared E or Optional[E], else None
FieldEnum(annotation) ==
    LET base == IF IsOptionalAnn(annotation) THEN OptionalInner(annotation) ELSE annotation
    IN IF base.o = "enum" THEN base.cls ELSE None

\* C6: schema_from_model raises UnsupportedTypeError for a model with an enum
\* field whose members mix int and string values; an int-valued enum field
\* becomes an integer column and a string-valued one a string column.
C6_EnumKindRestriction ==
    (Called(s_result) /\ "members" \in DOMAIN FieldEnum(s_model.fields[2].annotation)) =>
        LET kinds == MemberKinds(FieldEnum(s_model.fields[2].annotation))
        IN /\ ({"int", "str"} \subseteq kinds) =>
                (~s_result.ok /\ s_result.err = "UnsupportedTypeError")
           /\ (kinds = {"int"}) =>
                (s_result.ok /\ s_result.val.fields[2].type = pa_int64)
           /\ (kinds = {"str"}) =>
                (s_result.ok /\ s_result.val.fields[2].type = pa_string)

\* C6 witness: the mixed enum was rejected.
C6_Witness ==
    /\ Called(s_result)
    /\ s_model.fields[2].annotation.o = "enum"
    /\ s_model.fields[2].annotation.cls.name = "MixedKind"
    /\ ~s_result.ok /\ s_result.err = "UnsupportedTypeError"

\* the value annotation of a field declared Dict[str, V] or
\* Optional[Dict[str, V]], else None
DictValueAnnotation(annotation) ==
    LET base == IF IsOptionalAnn(annotation) THEN OptionalInner(annotation) ELSE annotation
    IN IF get_origin(base) = "dict" /\ Len(get_args(base)) = 2
          /\ get_args(base)[1] = Plain("str")
       THEN get_args(base)[2]
       ELSE None

\* the value annotation is Any or a union of several types
Heterogeneous(value) ==
    \/ value = Plain("Any")
    \/ /\ get_origin(value) = "Union"
       /\ Cardinality({i \in 1..Len(get_args(value)) : ~IsNoneType(get_args(value)[i])}) > 1

\* C20: schema_from_model maps a dict field with string keys and heterogeneous
\* values (Any, or a union of several types) to a large_binary column whose
\* field metadata carries dpa.serialized = dict_any, nullable when the field
\* is Optional; and a dict field with string keys and one mappable value type
\* to a map column of (string, mapped value type) without the tag.
C20_DictColumns ==
    (Called(s_result) /\ "o" \in DOMAIN DictValueAnnotation(s_model.fields[2].annotation)) =>
        LET annotation == s_model.fields[2].annotation
            value == DictValueAnnotation(annotation)
            mapped == _annotation_to_arrow(value, s_config)
        IN IF Heterogeneous(value)
           THEN /\ s_result.ok
                /\ s_result.val.fields[2].type = pa_large_binary
                /\ s_result.val.fields[2].metadata
                        = {<<SERIALIZED_FIELD_METADATA_KEY, SERIALIZED_FIELD_KIND_DICT_ANY>>}
                /\ s_result.val.fields[2].nullable <=> IsOptionalAnn(annotation)
           ELSE mapped.ok =>
                /\ s_result.ok
                /\ s_result.val.fields[2].type = pa_map(pa_string, mapped.val.type)
                /\ s_result.val.fields[2].metadata = {}
                /\ s_result.val.fields[2].nullable <=> IsOptionalAnn(annotation)

\* C21: schema_from_model maps a field declared Any to a large_binary column
\* whose field metadata carries the serialized-kind tag, as it does for a dict
\* with Any values, so that to_arrow serialises the field's value whole and
\* from_arrow restores it.
C21_AnyField ==
    (Called(s_result) /\ s_model.fields[2].annotation = Plain("Any")) =>
        LET like == schema_from_model(
                        GeneratedModel(DictOf(Plain("str"), Plain("Any")),
                                       s_model.fields[2].required), s_config)
            rows == PyList(<<New(s_model, <<PyInt(1), PyList(<<PyInt(2), PyStr("x")>>)>>)>>)
            arrow == to_arrow(rows, None, s_config, FALSE)
        IN /\ s_result.ok
           /\ s_result.val.fields[2].type = pa_large_binary
           /\ s_result.val.fields[2].metadata
                    = {<<SERIALIZED_FIELD_METADATA_KEY, SERIALIZED_FIELD_KIND_DICT_ANY>>}
           /\ like.ok
           /\ like.val.fields[2].type = s_result.val.fields[2].type
           /\ like.val.fields[2].metadata = s_result.val.fields[2].metadata
           /\ arrow.ok
           /\ IsPickle(Column(arrow.val, "f")[1])
           /\ LET restored == from_arrow(arrow.val, ListOf(ModelAnn(s_model)), TRUE, s_config)
              IN restored.ok /\ PyEq(restored.val, rows)

\* the builtin and typing containers an annotation may name without arguments
Containers == {"list", "tuple", "set", "dict"}

\* whether an annotation holds, at any depth, a union with more than one
\* non-None member, a dict with a non-string key or a container without type
\* arguments
RECURSIVE HasRefusedShape(_)
HasRefusedShape(annotation) ==
    IF annotation.o = "model"
    THEN \E i \in 1..Len(annotation.cls.fields) :
            HasRefusedShape(annotation.cls.fields[i].annotation)
    ELSE IF "args" \notin DOMAIN annotation THEN annotation.o \in Containers
    ELSE LET args == annotation.args
             members == SelectSeq(args, LAMBDA arg : ~IsNoneType(arg))
         IN \/ annotation.o \in Containers /\ Len(args) = 0
            \/ annotation.o = "Union" /\ Len(members) > 1
            \/ annotation.o = "dict" /\ Len(args) = 2 /\ args[1] # Plain("str")
            \/ \E i \in 1..Len(args) : HasRefusedShape(args[i])

\* C22: schema_from_model raises UnsupportedTypeError, and returns no schema,
\* for every model with a field that holds, at any nesting depth, a union with
\* more than one non-None member, a dict with a non-string key or a container
\* without type arguments; no other exception type escapes for these shapes.
C22_RefusedShapes ==
    (Called(s_result) /\ HasRefusedShape(s_model.fields[2].annotation)) =>
        s_result = Err("UnsupportedTypeError")

----------------------------------------------------------------------------
(* Further claims about to_arrow and from_arrow *)

\* pa.int32(), the type the enum test expects of an int-valued enum column
pa_int32 == ArrowType("int32")

\* C12: to_arrow stores an int-valued enum field, required or Optional, in an
\* int32 column and a string-valued one in a string column, each cell holding
\* the member's value (null for None), and from_arrow restores the members.
C12_EnumColumns ==
    EncodedModels =>
        \A j \in 1..Len(ClassOf(c_obj).fields) :
            LET field == ClassOf(c_obj).fields[j]
                enum == FieldEnum(field.annotation)
                column == c_arrow.val.schema.fields[j]
            IN ("members" \in DOMAIN enum) =>
                /\ (MemberKinds(enum) = {"int"}) => column.type = pa_int32
                /\ (MemberKinds(enum) = {"str"}) => column.type = pa_string
                /\ \A i \in 1..Len(c_obj.v) :
                        LET value == DictGet(c_obj.v[i], field.name)
                            cell == Column(c_arrow.val, field.name)[i]
                        IN cell = (IF IsNone(value) THEN None ELSE EnumValue(value))
                /\ (DecodedAsReturned /\ c_hint = ListOf(ModelAnn(ClassOf(c_obj)))) =>
                        /\ c_restored.ok
                        /\ \A i \in 1..Len(c_obj.v) :
                                DictGet(c_restored.val.v[i], field.name)
                                    = DictGet(c_obj.v[i], field.name)

\* from_arrow was called with a single model type as its type_hint
DecodedAsOneModel == pc = "decoded" /\ "o" \in DOMAIN c_hint /\ c_hint.o = "model"

\* the rows of the data handed to from_arrow
DataRows == IF c_data.k \in {"Table", "RecordBatch"} THEN c_data.rows ELSE c_data.values

\* C13: from_arrow with type_hint a single model type T returns one T instance
\* when the data holds exactly one row, and raises SchemaMismatchError when it
\* holds zero rows or more than one.
C13_SingleModelHint ==
    DecodedAsOneModel =>
        IF Len(DataRows) = 1
        THEN /\ c_restored.ok
             /\ c_restored.val.k = "model"
             /\ c_restored.val.cls = c_hint.cls
        ELSE c_restored = Err("SchemaMismatchError")

\* two rows were decoded with a single model type as the type_hint
C13_Witness ==
    /\ DecodedAsOneModel
    /\ Len(DataRows) = 2
    /\ c_restored = Err("SchemaMismatchError")

\* the model classes of the model instances in a sequence
ClassesIn(items) == {items[i].cls : i \in {j \in 1..Len(items) : items[j].k = "model"}}

\* to_arrow was handed a sequence
EncodedSequence == pc \in {"encoded", "decoded"} /\ c_obj.k \in {"list", "tuple"}

\* C14: to_arrow on a sequence with model instances of two different types
\* raises SchemaMismatchError wherever the second type sits, and on a sequence
\* with an item that is neither a model nor a dict raises UnsupportedTypeError;
\* either way it returns no batch.
C14_AllOrNothing ==
    EncodedSequence =>
        LET items == c_obj.v
            mixed == Cardinality(ClassesIn(items)) > 1
            foreign == \E i \in 1..Len(items) : items[i].k \notin {"model", "dict"}
        IN /\ (mixed /\ ~foreign) => c_arrow = Err("SchemaMismatchError")
           /\ (foreign /\ ~mixed) => c_arrow = Err("UnsupportedTypeError")
           /\ (mixed \/ foreign) => ~c_arrow.ok

\* two items of one model type came before the item of another type
C14_Witness ==
    /\ EncodedSequence
    /\ Len(c_obj.v) = 3
    /\ c_obj.v[1].k = "model" /\ c_obj.v[2].k = "model" /\ c_obj.v[3].k = "model"
    /\ c_obj.v[1].cls = c_obj.v[2].cls /\ c_obj.v[3].cls # c_obj.v[1].cls
    /\ c_arrow = Err("SchemaMismatchError")

\* from_arrow was called with a list[T] or T type_hint for a model type T
DecodedIntoModels ==
    /\ pc = "decoded" /\ "o" \in DOMAIN c_hint
    /\ c_hint.o = "model" \/ (c_hint.o = "list" /\ c_hint.args[1].o = "model")

\* C15: with fast_path_skip_validation = true in from_arrow's config the rows
\* are built into the model without validation, as with validate=False; with
\* it false and validate true every row is validated, and a row that fails
\* surfaces as ValidationError.
C15_FastPathSkipsValidation ==
    DecodedIntoModels =>
        LET rows == from_arrow(c_data, NoHint, c_validate, c_dconfig).val.v
            target == IF c_hint.o = "model" THEN c_hint.cls ELSE c_hint.args[1].cls
            invalid == \E i \in 1..Len(rows) : ~model_validate(target, rows[i]).ok
        IN /\ OrDefault(c_dconfig).fast_path_skip_validation =>
                c_restored = from_arrow(c_data, c_hint, FALSE, c_dconfig)
           /\ (~OrDefault(c_dconfig).fast_path_skip_validation /\ c_validate
                    /\ c_hint.o = "list" /\ invalid) =>
                c_restored = Err("ValidationError")

\* from_arrow has been called
FromArrowCalled == pc \in {"decoded", "read"}

\* the data is a Table, a RecordBatch or a struct-typed array
TableBatchOrStructArray(data) ==
    \/ data.k \in {"Table", "RecordBatch"}
    \/ data.k \in {"Array", "ChunkedArray"} /\ data.type.t = "struct"

\* C16: from_arrow raises UnsupportedTypeError, and returns no rows, for every
\* input that is not a Table, not a RecordBatch and not a struct-typed array,
\* an array or chunked array of a non-struct type included.
C16_TypedErrorForOtherInput ==
    (FromArrowCalled /\ ~TableBatchOrStructArray(c_data)) =>
        c_restored = Err("UnsupportedTypeError")

RECURSIVE DatetimesNormalised(_, _, _)
\* after is before with every datetime leaf under dicts, lists and tuples as
\* the policy wants it: on UTC at the same instant (a naive one read as UTC)
\* under normalize_utc, untouched otherwise, and never naive under
\* error_on_naive
DatetimesNormalised(before, after, policy) ==
    IF before.k = "dict"
    THEN /\ after.k = "dict" /\ Keys(after) = Keys(before)
         /\ \A i \in 1..Len(before.v) :
                DatetimesNormalised(before.v[i].val, after.v[i].val, policy)
    ELSE IF before.k \in {"list", "tuple"}
    THEN /\ after.k = before.k /\ Len(after.v) = Len(before.v)
         /\ \A i \in 1..Len(before.v) : DatetimesNormalised(before.v[i], after.v[i], policy)
    ELSE IF before.k = "datetime"
    THEN IF policy = "normalize_utc"
         THEN /\ after.k = "datetime" /\ after.aware /\ after.off = 0
              /\ after.wall = (IF before.aware THEN before.wall - before.off ELSE before.wall)
         ELSE /\ after = before
              /\ policy = "error_on_naive" => before.aware
    ELSE after = before

RECURSIVE HasNaiveDatetime(_)
\* a naive datetime sits somewhere under the dicts, lists and tuples of value
HasNaiveDatetime(value) ==
    IF value.k = "dict" THEN \E i \in 1..Len(value.v) : HasNaiveDatetime(value.v[i].val)
    ELSE IF value.k \in {"list", "tuple"} THEN \E i \in 1..Len(value.v) : HasNaiveDatetime(value.v[i])
    ELSE value.k = "datetime" /\ ~value.aware

RECURSIVE AllDatetimesOnUtc(_)
\* every datetime under the dicts, lists and tuples of value is aware, on UTC
AllDatetimesOnUtc(value) ==
    IF value.k = "dict" THEN \A i \in 1..Len(value.v) : AllDatetimesOnUtc(value.v[i].val)
    ELSE IF value.k \in {"list", "tuple"} THEN \A i \in 1..Len(value.v) : AllDatetimesOnUtc(value.v[i])
    ELSE value.k = "datetime" => (value.aware /\ value.off = 0)

\* to_arrow was handed rows it takes, at least one, and has the schema for them
EncodedRows ==
    /\ pc \in {"encoded", "decoded"}
    /\ _normalise_input(c_obj).ok
    /\ Len(_normalise_input(c_obj).val.rows) > 0
    /\ SchemaFor(c_schema, _normalise_input(c_obj).val.model_type, OrDefault(c_config)).ok

\* C17: on encode every datetime leaf at any depth of a row is transformed by
\* config.datetime_policy: normalize_utc attaches UTC to a naive value and
\* converts an aware one to UTC, preserve_tz leaves every value unchanged,
\* error_on_naive raises on a naive value before any batch is produced and
\* leaves aware values unchanged.
C17_EncodePolicy ==
    EncodedRows =>
        LET rows == _normalise_input(c_obj).val.rows
            policy == OrDefault(c_config).datetime_policy
            normalised == _normalise_datetime_values(rows, OrDefault(c_config))
            naive == \E i \in 1..Len(rows) : HasNaiveDatetime(rows[i])
        IN /\ (policy = "error_on_naive" /\ naive) =>
                (~normalised.ok /\ c_arrow = Err("ValueError"))
           /\ ~(policy = "error_on_naive" /\ naive) =>
                /\ normalised.ok
                /\ \A i \in 1..Len(rows) :
                        DatetimesNormalised(rows[i], normalised.val[i], policy)
           /\ (policy = "normalize_utc" /\ c_arrow.ok) =>
                \A i \in 1..Len(c_arrow.val.rows) : AllDatetimesOnUtc(c_arrow.val.rows[i])

\* dict rows with naive datetimes in a list and an aware one in a tuple inside
\* a dict were encoded under normalize_utc
C17_Witness ==
    /\ EncodedRows
    /\ c_obj = NestedDatetimeRows
    /\ OrDefault(c_config).datetime_policy = "normalize_utc"
    /\ c_arrow.ok
    /\ DictGet(c_arrow.val.rows[1], "log") = PyList(<<PyDatetime(60, TRUE, 0), PyDatetime(90, TRUE, 0)>>)

RECURSIVE DatetimesRestored(_, _, _)
\* after is before with every datetime leaf under dicts, lists and tuples as
\* the restore policy wants it: an aware one turned into the naive UTC
\* wall-clock value under normalize_utc, everything else untouched
DatetimesRestored(before, after, policy) ==
    IF before.k = "dict"
    THEN /\ after.k = "dict" /\ Keys(after) = Keys(before)
         /\ \A i \in 1..Len(before.v) :
                DatetimesRestored(before.v[i].val, after.v[i].val, policy)
    ELSE IF before.k \in {"list", "tuple"}
    THEN /\ after.k = before.k /\ Len(after.v) = Len(before.v)
         /\ \A i \in 1..Len(before.v) : DatetimesRestored(before.v[i], after.v[i], policy)
    ELSE IF before.k = "datetime" /\ before.aware /\ policy = "normalize_utc"
    THEN after = PyDatetime(before.wall - before.off, FALSE, 0)
    ELSE after = before

\* from_arrow was called without a type_hint and returned rows
DecodedRows ==
    FromArrowCalled /\ c_hint = NoHint /\ _ensure_table(c_data).ok /\ c_restored.ok

\* the schema metadata of the data handed to from_arrow
DataMetadata == _ensure_table(c_data).val.schema.metadata

\* C18: from_arrow takes the datetime restore policy from the data's
\* datetime_policy schema metadata whenever the key is present, whatever the
\* caller's config holds, and from the caller's config when it is absent;
\* under normalize_utc every aware datetime becomes the naive UTC wall-clock
\* value, under preserve_tz every datetime is left unchanged.
C18_RestorePolicy ==
    DecodedRows =>
        LET table == _ensure_table(c_data).val
            policy == IF "datetime_policy" \in DOMAIN DataMetadata
                      THEN DataMetadata["datetime_policy"]
                      ELSE OrDefault(c_dconfig).datetime_policy
            before == _decode_special_types(
                          _deserialise_field_values(to_pylist(table), table.schema).val,
                          DataMetadata)
        IN /\ Len(c_restored.val.v) = Len(before)
           /\ \A i \in 1..Len(before) :
                DatetimesRestored(before[i], c_restored.val.v[i], policy)

\* data stamped normalize_utc, holding an aware datetime, was decoded by a
\* caller whose config says preserve_tz, and the datetime came back naive
C18_Witness ==
    /\ DecodedRows /\ pc = "decoded"
    /\ "datetime_policy" \in DOMAIN DataMetadata
    /\ DataMetadata["datetime_policy"] = "normalize_utc"
    /\ OrDefault(c_dconfig).datetime_policy = "preserve_tz"
    /\ \E i \in 1..Len(c_data.rows) :
            /\ HasKey(c_data.rows[i], "at")
            /\ DictGet(c_data.rows[i], "at") = PyDatetime(180, TRUE, 0)
            /\ DictGet(c_restored.val.v[i], "at") = PyDatetime(180, FALSE, 0)

\* to_arrow returned a batch or a table
ArrowReturned == pc \in {"encoded", "decoded"} /\ c_arrow.ok

\* the model type of the rows handed to to_arrow, None for plain dicts
RowsModelType == _normalise_input(c_obj).val.model_type

\* C19: every batch or table to_arrow returns carries the schema metadata key
\* datetime_policy set to the effective config's policy, for model instances
\* and plain dicts alike; for model instances it also carries
\* pydantic_model_fqn, the module-qualified name of the type, and
\* model_schema_hash, the same for every conversion of that model type.
C19_BatchMetadata ==
    ArrowReturned =>
        LET metadata == c_arrow.val.schema.metadata
        IN /\ "datetime_policy" \in DOMAIN metadata
           /\ metadata["datetime_policy"] = OrDefault(c_config).datetime_policy
           /\ ~IsNone(RowsModelType) =>
                /\ "pydantic_model_fqn" \in DOMAIN metadata
                /\ metadata["pydantic_model_fqn"]
                        = RowsModelType.module \o "." \o RowsModelType.name
                /\ "model_schema_hash" \in DOMAIN metadata
                /\ \A other \in ModelLists :
                        (ClassOf(other) = RowsModelType /\ Len(other.v) = 1) =>
                            LET again == to_arrow(other, None, None, TRUE)
                            IN again.ok =>
                                again.val.schema.metadata["model_schema_hash"]
                                    = metadata["model_schema_hash"]

\* the UUIDs under a value as (structural path, version) pairs: "[]" for an
\* item of a list or tuple, ".key" for a value of a dict
RECURSIVE UuidsUnder(_, _)
UuidsUnder(value, path) ==
    IF value.k = "uuid" THEN {<<path, uuid_version(value)>>}
    ELSE IF value.k \in {"list", "tuple"}
    THEN UNION {UuidsUnder(value.v[i], path \o "[]") : i \in 1..Len(value.v)}
    ELSE IF value.k = "dict"
    THEN UNION {UuidsUnder(value.v[i].val, path \o "." \o value.v[i].key) :
                    i \in 1..Len(value.v)}
    ELSE {}

\* the UUIDs of the rows to_arrow was given, before encoding
UuidsGiven ==
    LET rows == _normalise_input(c_obj).val.rows
    IN UNION {UuidsUnder(rows[r].v[i].val, rows[r].v[i].key) :
                <<r, i>> \in {<<r, i>> \in (1..Len(rows)) \X (1..8) : i <= Len(rows[r].v)}}

\* the metadata keys _encode_special_types writes
UuidMetadataKeys ==
    {UUID_METADATA_KEY, UUID_VERSION_KEY, UUID_ENCODING_KEY, UUID_UTILS_KEY}

\* C23: after encoding, the uuid_columns manifest has one entry for each path
\* at which a UUID occurred, and no UUID metadata is written when none
\* occurred; an entry records version v when every UUID at that path has
\* version v and "unknown" when the versions at that path differ; uuid.version
\* is written only when all UUIDs encountered share one version.
C23_UuidManifest ==
    ArrowReturned /\ Len(_normalise_input(c_obj).val.rows) > 0 =>
        LET metadata == c_arrow.val.schema.metadata
            paths == {u[1] : u \in UuidsGiven}
            VersionsAt(path) == {u[2] : u \in {x \in UuidsGiven : x[1] = path}}
        IN IF paths = {} THEN DOMAIN metadata \cap UuidMetadataKeys = {}
           ELSE /\ UUID_METADATA_KEY \in DOMAIN metadata
                /\ LET manifest == JsonLoads(metadata[UUID_METADATA_KEY])
                   IN /\ {manifest.v[i].key : i \in 1..Len(manifest.v)} = paths
                      /\ \A i, j \in 1..Len(manifest.v) :
                            manifest.v[i].key = manifest.v[j].key => i = j
                      /\ \A path \in paths :
                            DictGet(DictGet(manifest, path), "version")
                                = IF Cardinality(VersionsAt(path)) = 1
                                  THEN CHOOSE v \in VersionsAt(path) : TRUE
                                  ELSE PyStr("unknown")
                /\ (UUID_VERSION_KEY \in DOMAIN metadata =>
                        /\ Cardinality({u[2] : u \in UuidsGiven}) = 1
                        /\ metadata[UUID_VERSION_KEY]
                                = ToString((CHOOSE u \in UuidsGiven : TRUE)[2].n))

\* whether the decoded value has a UUID exactly where the original has one,
\* the same bytes where the original has bytes and null where it has null
RECURSIVE UuidsWhereGiven(_, _)
UuidsWhereGiven(original, decoded) ==
    IF original.k = "uuid" THEN decoded.k = "uuid"
    ELSE IF IsNone(original) THEN IsNone(decoded)
    ELSE IF original.k = "bytes" THEN decoded = original
    ELSE IF original.k \in {"list", "tuple"}
    THEN /\ decoded.k \in {"list", "tuple"}
         /\ Len(decoded.v) = Len(original.v)
         /\ \A i \in 1..Len(original.v) : UuidsWhereGiven(original.v[i], decoded.v[i])
    ELSE IF original.k = "dict"
    THEN /\ decoded.k = "dict"
         /\ \A i \in 1..Len(original.v) :
                /\ HasKey(decoded, original.v[i].key)
                /\ UuidsWhereGiven(original.v[i].val, DictGet(decoded, original.v[i].key))
    ELSE decoded.k # "uuid"

\* from_arrow was called without a type hint on what to_arrow returned
DecodedWithoutHint ==
    pc = "decoded" /\ c_arrow.ok /\ c_data = c_arrow.val /\ c_hint = NoHint

\* C24: for rows encoded by to_arrow and decoded by from_arrow with no
\* type_hint, a decoded value is a UUID if and only if the value at that
\* position was a UUID before encoding; every bytes value that was not a UUID
\* is returned as the same bytes, and a null stays null.
C24_UuidsWhereGiven ==
    DecodedWithoutHint =>
        LET rows == _normalise_input(c_obj).val.rows
        IN /\ c_restored.ok
           /\ Len(c_restored.val.v) = Len(rows)
           /\ \A r \in 1..Len(rows) : UuidsWhereGiven(rows[r], c_restored.val.v[r])

----------------------------------------------------------------------------
(* Further claims about BatchBuilder *)

\* the row of a batch is made of a buffered object: each column holds the
\* Arrow form of the object's field of that name, null when it has none
RowHolds(row, obj) ==
    /\ row.k = "dict"
    /\ \A j \in 1..Len(row.v) :
            IF HasKey(obj, row.v[j].key)
            THEN CellHolds(row.v[j].val, DictGet(obj, row.v[j].key))
            ELSE IsNone(row.v[j].val)

\* C25: to_record_batch does not modify the builder.  The buffer is the
\* successful appends since the last clear() in append order (an append that
\* returns adds its object at the end, one that raises adds nothing, clear
\* empties it); the batch to_record_batch returns has one row per buffered
\* object, in that order; the buffer, schema and model type are the same after
\* the call as before it; a second call right after the first returns an equal
\* batch.
C25_RecordBatchReadsOnly ==
    [][/\ b_last'.op = "append" =>
            b_rows' = IF b_last'.result.ok THEN Append(b_rows, b_last'.arg) ELSE b_rows
       /\ b_last'.op = "clear" => b_rows' = <<>>
       /\ b_last'.op = "to_record_batch" =>
            /\ b_rows' = b_rows
            /\ b_schema' = b_schema
            /\ b_model_type' = b_model_type
            /\ b_config' = b_config
            /\ b_last'.result.ok =>
                    /\ b_last'.result.val.k = "RecordBatch"
                    /\ Len(b_last'.result.val.rows) = Len(b_rows)
                    /\ \A i \in 1..Len(b_rows) :
                            RowHolds(b_last'.result.val.rows[i], b_rows[i])
            /\ b_last.op = "to_record_batch" => b_last'.result = b_last.result]_vars

\* a builder holding two different rows gave its record batch twice in a row
C25_Witness ==
    /\ b_last.op = "to_record_batch" /\ b_last.prev = "to_record_batch"
    /\ Len(b_rows) = 2 /\ b_rows[1] # b_rows[2]
    /\ b_last.result.ok
    /\ Len(b_last.result.val.rows) = 2

\* C26: an append that raises leaves the builder as it was before the call:
\* the buffered rows, the resolved schema and the model-type binding are
\* unchanged, so the builder never holds a bound model type without a
\* resolved schema.
C26_FailedAppendChangesNothing ==
    [][/\ (b_last'.op = "append" /\ ~b_last'.result.ok) =>
            /\ b_rows' = b_rows
            /\ b_schema' = b_schema
            /\ b_model_type' = b_model_type
       /\ ~IsNone(b_model_type') => ~IsNone(b_schema')]_vars

----------------------------------------------------------------------------
(* Specifications *)

ConvIdle ==
    /\ pc = "idle"
    /\ c_obj = None
    /\ c_schema = None
    /\ c_config = None
    /\ c_as_table = FALSE
    /\ c_arrow = NotCalled
    /\ c_data = None
    /\ c_validate = TRUE
    /\ c_dconfig = None
    /\ c_hint = None
    /\ c_restored = NotCalled

BuilderIdle ==
    /\ b_rows = <<>>
    /\ b_schema = None
    /\ b_model_type = None
    /\ b_config = DAConfig
    /\ b_last = NotCalled

\* nothing has been called yet
Idle == SchemaIdle /\ ConvIdle /\ BuilderIdle

\* calls of schema_from_model
SchemaNext == DeriveSchema
SpecSchema == Idle /\ [][SchemaNext]_vars

\* calls of to_arrow and from_arrow
ConvNext == CallToArrow \/ CallFromArrow \/ CallFromArrowOnReceived
SpecConv == Idle /\ [][ConvNext]_vars

\* a BatchBuilder has been constructed
BatchInit == SchemaIdle /\ ConvIdle /\ BuilderInit

\* calls on one BatchBuilder
BatchNext == DoAppend \/ DoToRecordBatch \/ DoClear
SpecBatch == BatchInit /\ [][BatchNext]_vars

====
